---- MODULE Spec2Model ----
(***************************************************************************)
(* Session layer of the Archipelago client (src/src/client.rs): opening   *)
(* the websocket, the connect handshake, recv with its message buffer, the *)
(* slot join, the selective-wait operations sync, location_scouts, get and *)
(* set, send, disconnect, and the Sender and Receiver halves made by       *)
(* split, run against a server that writes frames to the websocket.        *)
(***************************************************************************)
EXTENDS Integers, Sequences, FiniteSets, TLC

\* ------------------------------------------------------------------ bounds
\* What the server sends over the life of the connection: messages, plus
\* frames that carry no message (empty array, malformed text, ping, pong,
\* binary).
MaxSent == 3
\* Frames the server has written that the client has not read yet.
MaxWire == 1

\* ------------------------------------------------------------ the alphabet
\* The cmd tags of ServerMessage the server draws from.
ServerCmds ==
    {"RoomInfo", "Connected", "ReceivedItems", "LocationInfo",
     "Retrieved", "SetReply", "Print"}

\* The ClientMessage kinds written by send and the fire-and-forget helpers.
SendCmds == {"Say", "LocationChecks", "StatusUpdate", "Bounce"}

\* A ServerMessage: its cmd tag and its position in the server's send order.
Msg(c, i) == [cmd |-> c, id |-> i]

NoMsg == [cmd |-> "none", id |-> 0]

\* Frames of the websocket stream that carry no ServerMessage.
OddKinds == {"empty", "badtext", "ping", "pong", "binary"}

TextFrame(ms) == [kind |-> "text", msgs |-> ms]

\* A text frame whose JSON is the object of one message, not an array.
BareFrame(m) == [kind |-> "bare", msgs |-> <<m>>]

OddFrame(k) == [kind |-> k, msgs |-> <<>>]

\* What ws.next() yields once the stream has terminated.
EndOfStream == [kind |-> "end", msgs |-> <<>>]

\* --------------------------------------------------------------- sequences
Last(s) == s[Len(s)]

Front(s) == SubSeq(s, 1, Len(s) - 1)

\* Vec::reverse
Reverse(s) == [i \in 1..Len(s) |-> s[Len(s) + 1 - i]]

\* ----------------------------------------------------------------- results
\* Result<_, ArchipelagoError> of an operation, as the caller sees it.
Ok(o, m) == [op |-> o, tag |-> "Ok", msg |-> m, err |-> "none", expected |-> "none"]

OkNone(o) == [op |-> o, tag |-> "OkNone", msg |-> NoMsg, err |-> "none", expected |-> "none"]

Err(o, e) == [op |-> o, tag |-> "Err", msg |-> NoMsg, err |-> e, expected |-> "none"]

IllegalResponse(o, m, x) ==
    [op |-> o, tag |-> "Err", msg |-> m, err |-> "IllegalResponse", expected |-> x]

NoResult == [op |-> "none", tag |-> "none", msg |-> NoMsg, err |-> "none", expected |-> "none"]

VARIABLES
    wire,            \* frames the server has written and the client has not read
    srv,             \* "open", or "closed" once the server has ended the stream
    nmsgs,           \* messages the server has sent so far
    nodd,            \* message-less frames the server has sent so far
    out,             \* frames the client has written, each a sequence of cmds,
                     \* during the operation in progress or the last one called
    pc,              \* where the caller is: in new, idle, or inside an operation
    response,        \* the message a selective-wait loop is looking at
    room_info,       \* ArchipelagoClient.room_info
    message_buffer,  \* ArchipelagoClient.message_buffer (a Vec: push/pop at the end)
    data_package,    \* ArchipelagoClient.data_package
    ret,             \* the result of the last operation that returned
    delivered,       \* history: how many messages were decoded from the stream;
                     \* they are the messages with ids 1..delivered, in that order
    returned,        \* history: the ids of the messages handed to the caller
                     \* (by recv, as a reply, or inside IllegalResponse), in order
    attempts,        \* history: the connect_async calls made by new, each with
                     \* its scheme, its address and how it ended
    joined,          \* history: connect has returned Connected on this session
    sender,          \* the ArchipelagoClientSender made by split
    receiver,        \* the ArchipelagoClientReceiver made by split
    call             \* the call the caller made: the constructor of the session
                     \* with its arguments, or a function of the protocol
                     \* module with its argument and what it has produced

vars == <<wire, srv, nmsgs, nodd, out, pc, response, room_info, message_buffer,
          data_package, ret, delivered, returned, attempts, joined, sender,
          receiver, call>>

client_vars == <<out, pc, response, room_info, message_buffer, data_package,
                 ret, delivered, returned, attempts, joined, sender, receiver,
                 call>>

server_vars == <<wire, srv, nmsgs, nodd>>

session_vars == <<room_info, message_buffer, data_package>>

\* The two halves of a split session.
split_vars == <<sender, receiver>>

\* The history of the session's lifecycle, and the call that began it.
life_vars == <<attempts, joined, call>>

\* ------------------------------------------------------------- the stream
\* The next item of the websocket stream; reading blocks while there is none.
CanRead == wire /= <<>> \/ srv = "closed"

NextFrame == IF wire /= <<>> THEN Head(wire) ELSE EndOfStream

RestOfWire == IF wire /= <<>> THEN Tail(wire) ELSE wire

\* recv_messages, had it decoded the text as Vec<ServerMessage> and not as
\* MaybeArray.
recv_messages_ArrayOnly(f) ==
    CASE f.kind = "end"     -> [tag |-> "None", msgs |-> <<>>, err |-> "none"]
      [] f.kind = "text"    -> [tag |-> "Ok", msgs |-> f.msgs, err |-> "none"]
      [] f.kind = "bare"    -> [tag |-> "Err", msgs |-> <<>>, err |-> "FailedSerialize"]
      [] f.kind = "empty"   -> [tag |-> "Ok", msgs |-> <<>>, err |-> "none"]
      [] f.kind = "badtext" -> [tag |-> "Err", msgs |-> <<>>, err |-> "FailedSerialize"]
      [] f.kind = "close"   -> [tag |-> "Err", msgs |-> <<>>, err |-> "ConnectionClosed"]
      [] f.kind \in {"ping", "pong"} -> [tag |-> "None", msgs |-> <<>>, err |-> "none"]
      [] f.kind = "binary"  -> [tag |-> "Err", msgs |-> <<>>, err |-> "NonTextWebsocketResult"]
      [] f.kind = "neterr"  -> [tag |-> "Err", msgs |-> <<>>, err |-> "NetworkError"]

\* recv_messages, had it taken a text that does not decode for a frame of no
\* message.
recv_messages_SkipsUndecodable(f) ==
    CASE f.kind = "end"     -> [tag |-> "None", msgs |-> <<>>, err |-> "none"]
      [] f.kind = "text"    -> [tag |-> "Ok", msgs |-> f.msgs, err |-> "none"]
      [] f.kind = "bare"    -> [tag |-> "Ok", msgs |-> f.msgs, err |-> "none"]
      [] f.kind = "empty"   -> [tag |-> "Ok", msgs |-> <<>>, err |-> "none"]
      [] f.kind = "badtext" -> [tag |-> "Ok", msgs |-> <<>>, err |-> "none"]
      [] f.kind = "close"   -> [tag |-> "Err", msgs |-> <<>>, err |-> "ConnectionClosed"]
      [] f.kind \in {"ping", "pong"} -> [tag |-> "None", msgs |-> <<>>, err |-> "none"]
      [] f.kind = "binary"  -> [tag |-> "Err", msgs |-> <<>>, err |-> "NonTextWebsocketResult"]
      [] f.kind = "neterr"  -> [tag |-> "Err", msgs |-> <<>>, err |-> "NetworkError"]

\* recv_messages: one stream item to Option<Result<Vec<ServerMessage>, _>>.
\* The text is decoded as MaybeArray: One(v) gives vec![v], Many(vs) gives vs.
recv_messages(f) ==
    CASE f.kind = "end"     -> [tag |-> "None", msgs |-> <<>>, err |-> "none"]
      [] f.kind = "text"    -> [tag |-> "Ok", msgs |-> f.msgs, err |-> "none"]
      [] f.kind = "bare"    -> [tag |-> "Ok", msgs |-> f.msgs, err |-> "none"]
      [] f.kind = "empty"   -> [tag |-> "Ok", msgs |-> <<>>, err |-> "none"]
      [] f.kind = "badtext" -> [tag |-> "Err", msgs |-> <<>>, err |-> "FailedSerialize"]
      [] f.kind = "close"   -> [tag |-> "Err", msgs |-> <<>>, err |-> "ConnectionClosed"]
      [] f.kind \in {"ping", "pong"} -> [tag |-> "None", msgs |-> <<>>, err |-> "none"]
      [] f.kind = "binary"  -> [tag |-> "Err", msgs |-> <<>>, err |-> "NonTextWebsocketResult"]
      [] f.kind = "neterr"  -> [tag |-> "Err", msgs |-> <<>>, err |-> "NetworkError"]

\* recv, were it to keep none of the messages that follow the first of a frame.
recv_DropsRest(buf, f) ==
    IF buf /= <<>>
    THEN [tag |-> "Some", msg |-> Last(buf), err |-> "none",
          buf |-> Front(buf), read |-> FALSE, got |-> <<>>]
    ELSE LET r == recv_messages(f) IN
         IF r.tag = "Ok" /\ r.msgs /= <<>>
         THEN [tag |-> "Some", msg |-> Head(r.msgs), err |-> "none",
               buf |-> <<>>, read |-> TRUE, got |-> r.msgs]
         ELSE [tag |-> IF r.tag = "Ok" THEN "None" ELSE r.tag, msg |-> NoMsg,
               err |-> r.err, buf |-> buf, read |-> TRUE, got |-> <<>>]

\* ArchipelagoClient::recv as a function of the buffer and the next stream
\* item: the result, the buffer afterwards, whether the stream was read and
\* the messages decoded from it.
recv(buf, f) ==
    IF buf /= <<>>
    THEN [tag |-> "Some", msg |-> Last(buf), err |-> "none",
          buf |-> Front(buf), read |-> FALSE, got |-> <<>>]
    ELSE LET r == recv_messages(f) IN
         CASE r.tag = "None" ->
                [tag |-> "None", msg |-> NoMsg, err |-> "none",
                 buf |-> buf, read |-> TRUE, got |-> <<>>]
           [] r.tag = "Err" ->
                [tag |-> "Err", msg |-> NoMsg, err |-> r.err,
                 buf |-> buf, read |-> TRUE, got |-> <<>>]
           [] r.tag = "Ok" ->
                LET messages == Reverse(r.msgs) IN
                IF messages = <<>>
                THEN [tag |-> "None", msg |-> NoMsg, err |-> "none",
                      buf |-> messages, read |-> TRUE, got |-> r.msgs]
                ELSE [tag |-> "Some", msg |-> Last(messages), err |-> "none",
                      buf |-> Front(messages), read |-> TRUE, got |-> r.msgs]

\* recv blocks only when it has to read the stream and the stream has no item.
RecvReady == message_buffer /= <<>> \/ CanRead

\* The effect of one recv on the stream and on the decode history.
ReadEffect(r) ==
    /\ wire' = IF r.read THEN RestOfWire ELSE wire
    /\ delivered' = delivered + Len(r.got)
    /\ UNCHANGED <<srv, nmsgs, nodd>>

\* -------------------------------------------------------------- the server
\* The server writes one text frame holding n >= 1 messages.
ServerSendText ==
    /\ srv = "open"
    /\ Len(wire) < MaxWire
    /\ \E n \in 1..(MaxSent - (nmsgs + nodd)) :
         \E cs \in [1..n -> ServerCmds] :
            /\ wire' = Append(wire, TextFrame([i \in 1..n |-> Msg(cs[i], nmsgs + i)]))
            /\ nmsgs' = nmsgs + n
    /\ UNCHANGED <<srv, nodd, client_vars>>

\* The server writes one text frame holding one message that is not in an
\* array.
ServerSendBare ==
    /\ srv = "open"
    /\ Len(wire) < MaxWire
    /\ nmsgs + nodd < MaxSent
    /\ \E c \in ServerCmds :
            /\ wire' = Append(wire, BareFrame(Msg(c, nmsgs + 1)))
            /\ nmsgs' = nmsgs + 1
    /\ UNCHANGED <<srv, nodd, client_vars>>

\* The server writes a frame that carries no message.
ServerSendOdd ==
    /\ srv = "open"
    /\ Len(wire) < MaxWire
    /\ nmsgs + nodd < MaxSent
    /\ \E k \in OddKinds : wire' = Append(wire, OddFrame(k))
    /\ nodd' = nodd + 1
    /\ UNCHANGED <<srv, nmsgs, client_vars>>

\* The server ends the stream: with a Close frame, or the connection breaks.
ServerClose ==
    /\ srv = "open"
    /\ Len(wire) < MaxWire
    /\ \E k \in {"close", "neterr"} : wire' = Append(wire, OddFrame(k))
    /\ srv' = "closed"
    /\ UNCHANGED <<nmsgs, nodd, client_vars>>

\* -------------------------------------------------------------- the client
\* `Some(ServerMessage::RoomInfo(room)) => room`: the first message of the
\* first frame must be the RoomInfo.
IsRoomInfo_Any(m) == TRUE

IsRoomInfo(m) == m.cmd = "RoomInfo"

\* Option<Vec<String>>, the games argument of with_data_package; the order
\* of the names plays no part.
NoGames == [is_some |-> FALSE, list |-> {}]

SomeGames(g) == [is_some |-> TRUE, list |-> g]

\* The caller called ArchipelagoClient::new.
NewCall == [fn |-> "new", games |-> NoGames]

\* Where new returns to: the caller, or with_data_package, which called it.
AfterNew == IF call.fn = "with_data_package" THEN "with_data_package" ELSE "idle"

\* ArchipelagoClient::new once the transport is established: read one frame,
\* take the RoomInfo that must lead it, keep the rest of the frame.
New ==
    /\ pc = "new"
    /\ CanRead
    /\ LET first_frame == recv_messages(NextFrame) IN
       /\ wire' = RestOfWire
       /\ delivered' = delivered + Len(first_frame.msgs)
       /\ CASE first_frame.tag = "None" ->
                 /\ ret' = Err("new", "ConnectionClosed")
                 /\ pc' = "failed"
                 /\ UNCHANGED session_vars
            [] first_frame.tag = "Err" ->
                 /\ ret' = Err("new", first_frame.err)
                 /\ pc' = "failed"
                 /\ UNCHANGED session_vars
            [] first_frame.tag = "Ok" /\ first_frame.msgs = <<>> ->
                 /\ ret' = Err("new", "ConnectionClosed")
                 /\ pc' = "failed"
                 /\ UNCHANGED session_vars
            [] first_frame.tag = "Ok" /\ first_frame.msgs /= <<>> ->
                 IF IsRoomInfo(Head(first_frame.msgs))
                 THEN /\ room_info' = Head(first_frame.msgs)
                      /\ message_buffer' = Tail(first_frame.msgs)
                      /\ data_package' = NoMsg
                      /\ ret' = Ok("new", Head(first_frame.msgs))
                      /\ pc' = AfterNew
                 ELSE /\ ret' = IllegalResponse("new", Head(first_frame.msgs),
                                                "Expected RoomInfo")
                      /\ pc' = "failed"
                      /\ UNCHANGED session_vars
    /\ UNCHANGED <<srv, nmsgs, nodd, out, response, returned, life_vars, split_vars>>

\* recv, had it applied a RoomUpdate it hands out to the stored RoomInfo.
Recv_AppliesRoomUpdate ==
    /\ pc = "idle"
    /\ RecvReady
    /\ LET r == recv(message_buffer, NextFrame) IN
       /\ ReadEffect(r)
       /\ message_buffer' = r.buf
       /\ ret' = CASE r.tag = "Some" -> Ok("recv", r.msg)
                   [] r.tag = "None" -> OkNone("recv")
                   [] r.tag = "Err"  -> Err("recv", r.err)
       /\ returned' = IF r.tag = "Some" THEN Append(returned, r.msg.id) ELSE returned
       /\ room_info' = IF r.tag = "Some" /\ r.msg.cmd = "RoomUpdate"
                       THEN r.msg ELSE room_info
    /\ out' = <<>>
    /\ UNCHANGED <<pc, response, data_package, life_vars, split_vars>>

\* ArchipelagoClient::recv called by the user of the session.
Recv ==
    /\ pc = "idle"
    /\ RecvReady
    /\ LET r == recv(message_buffer, NextFrame) IN
       /\ ReadEffect(r)
       /\ message_buffer' = r.buf
       /\ ret' = CASE r.tag = "Some" -> Ok("recv", r.msg)
                   [] r.tag = "None" -> OkNone("recv")
                   [] r.tag = "Err"  -> Err("recv", r.err)
       /\ returned' = IF r.tag = "Some" THEN Append(returned, r.msg.id) ELSE returned
    /\ out' = <<>>
    /\ UNCHANGED <<pc, response, room_info, data_package, life_vars, split_vars>>

\* What ws.send does with the frame: it is written, or the write fails once
\* the connection is gone.
SendOutcomes == IF srv = "closed" THEN {"ok", "neterr"} ELSE {"ok"}

\* The error send returns when serde_json::to_string fails: `?` converts the
\* serde_json::Error with the #[from] of ArchipelagoError.
send_EncodeError == "FailedSerialize"

\* serde_json::to_string(&[message]): the frame is an array of one message.
Encode_Pair(c) == <<c, c>>

Encode(c) == <<c>>

\* ArchipelagoClient::send and the helpers say, location_checks,
\* status_update and bounce, which only build a message and send it.
Send ==
    /\ pc = "idle"
    /\ \E c \in SendCmds : \E o \in SendOutcomes :
         IF o = "ok"
         THEN /\ out' = <<Encode(c)>>
              /\ ret' = OkNone("send")
         ELSE /\ out' = <<>>
              /\ ret' = Err("send", "NetworkError")
    /\ UNCHANGED <<server_vars, pc, response, session_vars, delivered, returned,
                   life_vars, split_vars>>

\* The first half of an operation that pairs a request with a reply: the
\* request is sent; a failed send ends the operation.
Call(o, c) ==
    /\ pc = "idle"
    /\ \E w \in SendOutcomes :
         IF w = "ok"
         THEN /\ out' = <<Encode(c)>>
              /\ pc' = o
              /\ ret' = NoResult
         ELSE /\ out' = <<>>
              /\ pc' = "idle"
              /\ ret' = Err(o, "NetworkError")
    /\ UNCHANGED <<server_vars, response, session_vars, delivered, returned,
                   life_vars, split_vars>>

\* `ServerMessage::Connected(connected) => Ok(connected)`
IsConnected_Any(m) == TRUE

IsConnected(m) == m.cmd = "Connected"

\* ArchipelagoClient::connect, the request.
connect_send == Call("connect", "Connect")

\* ArchipelagoClient::connect, the reply: one recv, which must be Connected.
connect_reply ==
    /\ pc = "connect"
    /\ RecvReady
    /\ LET r == recv(message_buffer, NextFrame) IN
       /\ ReadEffect(r)
       /\ message_buffer' = r.buf
       /\ pc' = "idle"
       /\ ret' = CASE r.tag = "Err"  -> Err("connect", r.err)
                   [] r.tag = "None" -> Err("connect", "ConnectionClosed")
                   [] r.tag = "Some" ->
                        IF IsConnected(r.msg)
                        THEN Ok("connect", r.msg)
                        ELSE IllegalResponse("connect", r.msg, "Connected")
       /\ returned' = IF r.tag = "Some" THEN Append(returned, r.msg.id) ELSE returned
       /\ joined' = (joined \/ (r.tag = "Some" /\ IsConnected(r.msg)))
    /\ UNCHANGED <<out, response, room_info, data_package, attempts, call,
                   split_vars>>

\* The selective-wait operations, the request each sends and the reply each
\* waits for.
SelOps == {"sync", "location_scouts", "get", "set"}

Request(o) ==
    CASE o = "sync"            -> "Sync"
      [] o = "location_scouts" -> "LocationScouts"
      [] o = "get"             -> "Get"
      [] o = "set"             -> "Set"

Expected(o) ==
    CASE o = "sync"            -> "ReceivedItems"
      [] o = "location_scouts" -> "LocationInfo"
      [] o = "get"             -> "Retrieved"
      [] o = "set"             -> "SetReply"

\* `resp => self.message_buffer.push(resp)`
PushBack_Drops(buf, m) == buf

PushBack(buf, m) == Append(buf, m)

\* The loop, had it taken its messages from the stream and not from recv.
WaitRecv_FromStream(o) ==
    /\ pc = o
    /\ response = NoMsg
    /\ CanRead
    /\ LET r == recv(<<>>, NextFrame) IN
       /\ ReadEffect(r)
       /\ message_buffer' = message_buffer \o r.buf
       /\ CASE r.tag = "Err" ->
                 /\ pc' = "idle"
                 /\ ret' = Err(o, r.err)
                 /\ response' = NoMsg
            [] r.tag = "None" ->
                 /\ pc' = "idle"
                 /\ ret' = Err(o, "ConnectionClosed")
                 /\ response' = NoMsg
            [] r.tag = "Some" ->
                 /\ pc' = o
                 /\ ret' = ret
                 /\ response' = r.msg
    /\ UNCHANGED <<out, room_info, data_package, returned, life_vars, split_vars>>

\* `while let Some(response) = self.recv().await?`: the loop takes the next
\* message; None ends the loop with ConnectionClosed, an error is passed on.
WaitRecv(o) ==
    /\ pc = o
    /\ response = NoMsg
    /\ RecvReady
    /\ LET r == recv(message_buffer, NextFrame) IN
       /\ ReadEffect(r)
       /\ message_buffer' = r.buf
       /\ CASE r.tag = "Err" ->
                 /\ pc' = "idle"
                 /\ ret' = Err(o, r.err)
                 /\ response' = NoMsg
            [] r.tag = "None" ->
                 /\ pc' = "idle"
                 /\ ret' = Err(o, "ConnectionClosed")
                 /\ response' = NoMsg
            [] r.tag = "Some" ->
                 /\ pc' = o
                 /\ ret' = ret
                 /\ response' = r.msg
    /\ UNCHANGED <<out, room_info, data_package, returned, life_vars, split_vars>>

\* The body of the loop, had it pushed on the buffer the reply it returns.
WaitMatch_KeepsCopy(o) ==
    /\ pc = o
    /\ response /= NoMsg
    /\ IF response.cmd = Expected(o)
       THEN /\ pc' = "idle"
            /\ ret' = Ok(o, response)
            /\ returned' = Append(returned, response.id)
       ELSE /\ pc' = o
            /\ ret' = ret
            /\ returned' = returned
    /\ message_buffer' = PushBack(message_buffer, response)
    /\ response' = NoMsg
    /\ UNCHANGED <<server_vars, out, room_info, data_package, delivered,
                   life_vars, split_vars>>

\* The body of the loop, `match response`: a message of the expected type is
\* returned, any other is pushed on the buffer and the loop goes round.
WaitMatch(o) ==
    /\ pc = o
    /\ response /= NoMsg
    /\ IF response.cmd = Expected(o)
       THEN /\ pc' = "idle"
            /\ ret' = Ok(o, response)
            /\ returned' = Append(returned, response.id)
            /\ message_buffer' = message_buffer
       ELSE /\ pc' = o
            /\ ret' = ret
            /\ returned' = returned
            /\ message_buffer' = PushBack(message_buffer, response)
    /\ response' = NoMsg
    /\ UNCHANGED <<server_vars, out, room_info, data_package, delivered,
                   life_vars, split_vars>>

WaitLoop(o) == WaitRecv(o) \/ WaitMatch(o)

\* ArchipelagoClient::sync
sync_send == Call("sync", Request("sync"))

sync_wait == WaitLoop("sync")

\* ArchipelagoClient::location_scouts
location_scouts_send == Call("location_scouts", Request("location_scouts"))

location_scouts_wait == WaitLoop("location_scouts")

\* ArchipelagoClient::get
get_send == Call("get", Request("get"))

get_wait == WaitLoop("get")

\* ArchipelagoClient::set
set_send == Call("set", Request("set"))

set_wait == WaitLoop("set")

\* ArchipelagoClient::disconnect: ws.close writes a Close frame, which
\* carries no message; the server ends the stream in its own time.
CloseFrame == <<>>

\* disconnect, were it to throw the buffered messages away.
Disconnect_ClearsBuffer ==
    /\ pc = "idle"
    /\ \E o \in SendOutcomes :
         IF o = "ok"
         THEN /\ out' = <<CloseFrame>>
              /\ ret' = OkNone("disconnect")
         ELSE /\ out' = <<>>
              /\ ret' = Err("disconnect", "tungstenite::Error")
    /\ message_buffer' = <<>>
    /\ UNCHANGED <<server_vars, pc, response, room_info, data_package, delivered,
                   returned, life_vars, split_vars>>

\* disconnect, were it to open the websocket again after closing it.
Disconnect_Reopens ==
    /\ pc = "idle"
    /\ out' = <<CloseFrame>>
    /\ ret' = OkNone("disconnect")
    /\ attempts' = Append(attempts, [Last(attempts) EXCEPT !.result = "ok"])
    /\ UNCHANGED <<server_vars, pc, response, session_vars, delivered, returned,
                   joined, call, split_vars>>

Disconnect ==
    /\ pc = "idle"
    /\ \E o \in SendOutcomes :
         IF o = "ok"
         THEN /\ out' = <<CloseFrame>>
              /\ ret' = OkNone("disconnect")
         ELSE /\ out' = <<>>
              /\ ret' = Err("disconnect", "tungstenite::Error")
    /\ UNCHANGED <<server_vars, pc, response, session_vars, delivered, returned,
                   life_vars, split_vars>>

\* ArchipelagoClient::room_info and ArchipelagoClient::data_package: the
\* getters hand out what the session holds.
room_info_getter ==
    /\ pc = "idle"
    /\ ret' = Ok("room_info", room_info)
    /\ out' = <<>>
    /\ UNCHANGED <<server_vars, pc, response, session_vars, delivered, returned,
                   life_vars, split_vars>>

data_package_getter ==
    /\ pc = "idle"
    /\ ret' = IF data_package = NoMsg THEN OkNone("data_package")
                                       ELSE Ok("data_package", data_package)
    /\ out' = <<>>
    /\ UNCHANGED <<server_vars, pc, response, session_vars, delivered, returned,
                   life_vars, split_vars>>

\* ------------------------------------------------------- the split halves
\* Before split there is neither half.
NoSender == [ws |-> "none"]

NoReceiver ==
    [ws |-> "none", room_info |-> NoMsg, message_buffer |-> <<>>,
     data_package |-> NoMsg]

\* split, were it to borrow the session instead of consuming it.
split_KeepsSession ==
    /\ pc = "idle"
    /\ sender.ws = "none"
    /\ sender' = [ws |-> "sink"]
    /\ receiver' = [ws |-> "stream", room_info |-> room_info,
                    message_buffer |-> message_buffer,
                    data_package |-> data_package]
    /\ out' = <<>>
    /\ ret' = OkNone("split")
    /\ UNCHANGED <<server_vars, pc, response, session_vars, delivered, returned,
                   life_vars>>

\* split, were the Receiver not to get the RoomInfo.
split_LosesRoomInfo ==
    /\ pc = "idle"
    /\ sender' = [ws |-> "sink"]
    /\ receiver' = [ws |-> "stream", room_info |-> NoMsg,
                    message_buffer |-> message_buffer,
                    data_package |-> data_package]
    /\ room_info' = NoMsg
    /\ message_buffer' = <<>>
    /\ data_package' = NoMsg
    /\ pc' = "split"
    /\ out' = <<>>
    /\ ret' = OkNone("split")
    /\ UNCHANGED <<server_vars, response, delivered, returned, life_vars>>

\* ArchipelagoClient::split consumes the session: the Sender gets the write
\* half of the websocket and nothing else, the Receiver the read half, the
\* RoomInfo, the buffer and the data package.
split ==
    /\ pc = "idle"
    /\ sender' = [ws |-> "sink"]
    /\ receiver' = [ws |-> "stream", room_info |-> room_info,
                    message_buffer |-> message_buffer,
                    data_package |-> data_package]
    /\ room_info' = NoMsg
    /\ message_buffer' = <<>>
    /\ data_package' = NoMsg
    /\ pc' = "split"
    /\ out' = <<>>
    /\ ret' = OkNone("split")
    /\ UNCHANGED <<server_vars, response, delivered, returned, life_vars>>

\* ArchipelagoClientSender::send, were it to take an item off the stream.
sender_send_Reads ==
    /\ sender.ws = "sink"
    /\ wire /= <<>>
    /\ wire' = Tail(wire)
    /\ \E c \in SendCmds :
         /\ out' = <<Encode(c)>>
         /\ ret' = OkNone("sender_send")
    /\ UNCHANGED <<srv, nmsgs, nodd, pc, response, session_vars, delivered,
                   returned, life_vars, split_vars>>

\* ArchipelagoClientSender::send and its helpers say, location_checks,
\* status_update and bounce.
sender_send ==
    /\ sender.ws = "sink"
    /\ \E c \in SendCmds : \E o \in SendOutcomes :
         IF o = "ok"
         THEN /\ out' = <<Encode(c)>>
              /\ ret' = OkNone("sender_send")
         ELSE /\ out' = <<>>
              /\ ret' = Err("sender_send", "NetworkError")
    /\ UNCHANGED <<server_vars, pc, response, session_vars, delivered, returned,
                   life_vars, split_vars>>

\* ArchipelagoClientReceiver::recv, were it to leave a frame in the order it
\* arrived in.
receiver_recv_Unreversed(buf, f) ==
    IF buf /= <<>>
    THEN [tag |-> "Some", msg |-> Last(buf), err |-> "none",
          buf |-> Front(buf), read |-> FALSE, got |-> <<>>]
    ELSE LET r == recv_messages(f) IN
         IF r.tag = "Ok" /\ r.msgs /= <<>>
         THEN [tag |-> "Some", msg |-> Last(r.msgs), err |-> "none",
               buf |-> Front(r.msgs), read |-> TRUE, got |-> r.msgs]
         ELSE [tag |-> IF r.tag = "Ok" THEN "None" ELSE r.tag, msg |-> NoMsg,
               err |-> r.err, buf |-> <<>>, read |-> TRUE, got |-> <<>>]

\* ArchipelagoClientReceiver::recv as a function of the Receiver's buffer and
\* the next stream item.
receiver_recv(buf, f) ==
    IF buf /= <<>>
    THEN [tag |-> "Some", msg |-> Last(buf), err |-> "none",
          buf |-> Front(buf), read |-> FALSE, got |-> <<>>]
    ELSE LET messages == recv_messages(f) IN
         CASE messages.tag = "None" ->
                [tag |-> "None", msg |-> NoMsg, err |-> "none",
                 buf |-> buf, read |-> TRUE, got |-> <<>>]
           [] messages.tag = "Err" ->
                [tag |-> "Err", msg |-> NoMsg, err |-> messages.err,
                 buf |-> buf, read |-> TRUE, got |-> <<>>]
           [] messages.tag = "Ok" ->
                LET reversed == Reverse(messages.msgs) IN
                IF reversed = <<>>
                THEN [tag |-> "None", msg |-> NoMsg, err |-> "none",
                      buf |-> reversed, read |-> TRUE, got |-> messages.msgs]
                ELSE [tag |-> "Some", msg |-> Last(reversed), err |-> "none",
                      buf |-> Front(reversed), read |-> TRUE,
                      got |-> messages.msgs]

\* ArchipelagoClientReceiver::recv called by the holder of the Receiver.
ReceiverRecv ==
    /\ receiver.ws = "stream"
    /\ receiver.message_buffer /= <<>> \/ CanRead
    /\ LET r == receiver_recv(receiver.message_buffer, NextFrame) IN
       /\ ReadEffect(r)
       /\ receiver' = [receiver EXCEPT !.message_buffer = r.buf]
       /\ ret' = CASE r.tag = "Some" -> Ok("receiver_recv", r.msg)
                   [] r.tag = "None" -> OkNone("receiver_recv")
                   [] r.tag = "Err"  -> Err("receiver_recv", r.err)
       /\ returned' = IF r.tag = "Some" THEN Append(returned, r.msg.id) ELSE returned
    /\ UNCHANGED <<out, pc, response, session_vars, life_vars, sender>>

\* ArchipelagoClientReceiver::room_info and ::data_package.
receiver_room_info ==
    /\ receiver.ws = "stream"
    /\ ret' = Ok("receiver_room_info", receiver.room_info)
    /\ UNCHANGED <<server_vars, out, pc, response, session_vars, delivered,
                   returned, life_vars, split_vars>>

receiver_data_package ==
    /\ receiver.ws = "stream"
    /\ ret' = IF receiver.data_package = NoMsg
              THEN OkNone("receiver_data_package")
              ELSE Ok("receiver_data_package", receiver.data_package)
    /\ UNCHANGED <<server_vars, out, pc, response, session_vars, delivered,
                   returned, life_vars, split_vars>>

\* --------------------------------------------------- opening the transport
\* The address new is called with; new only prefixes it with the scheme.
Urls == {"localhost:38281"}

\* How a connect_async call ends: with a connection, or with one of the
\* tungstenite errors.
ConnectResults == {"ok", "Tls", "Io", "Http"}

\* "wss://" + url and "ws://" + url
wss_url(url) == [scheme |-> "wss", addr |-> url]

ws_url(url) == [scheme |-> "ws", addr |-> url]

Attempt(u, r) == [url |-> u, result |-> r]

\* `Err(tungstenite::error::Error::Tls(_))`: the arm that falls back to ws.
IsTls_AnyError(e) == e /= "ok"

IsTls(e) == e = "Tls"

\* ArchipelagoClient::new, opening the websocket: wss first, ws when the TLS
\* handshake fails; any other error, and any error of the second attempt,
\* is returned as NetworkError.
new_connect ==
    /\ pc = "unconnected"
    /\ \E url \in Urls : \E first \in ConnectResults :
         IF first = "ok"
         THEN /\ attempts' = <<Attempt(wss_url(url), first)>>
              /\ pc' = "new"
              /\ ret' = ret
         ELSE IF IsTls(first)
         THEN \E second \in ConnectResults :
                /\ attempts' = <<Attempt(wss_url(url), first),
                                 Attempt(ws_url(url), second)>>
                /\ IF second = "ok"
                   THEN pc' = "new" /\ ret' = ret
                   ELSE pc' = "failed" /\ ret' = Err("new", "NetworkError")
         ELSE /\ attempts' = <<Attempt(wss_url(url), first)>>
              /\ pc' = "failed"
              /\ ret' = Err("new", "NetworkError")
    /\ UNCHANGED <<server_vars, out, response, session_vars, delivered, returned,
                   joined, call, split_vars>>

\* ------------------------------------------------- with_data_package
\* The games of a room.
GameNames == {"A", "B"}

\* What a RoomInfo says of the games: RoomInfo.games, and the keys of
\* RoomInfo.datapackage_checksums, which serde fills with the empty map when
\* the server sends none.
Rooms ==
    {[games |-> GameNames, datapackage_checksums |-> k] :
        k \in {GameNames, {"A"}, {}}}

\* The messages of a server whose RoomInfo is looked into: RoomInfo with its
\* games, and RoomUpdate and DataPackage.
RoomKinds ==
    {[cmd |-> "RoomInfo", games |-> r.games,
      datapackage_checksums |-> r.datapackage_checksums] : r \in Rooms}
        \cup {[cmd |-> c, games |-> {}, datapackage_checksums |-> {}] :
                c \in {"RoomUpdate", "DataPackage"}}

RoomMsg(k, i) ==
    [cmd |-> k.cmd, id |-> i, games |-> k.games,
     datapackage_checksums |-> k.datapackage_checksums]

\* The server writes a text frame of such messages.
RoomSendText ==
    /\ srv = "open"
    /\ Len(wire) < MaxWire
    /\ \E n \in 1..(MaxSent - (nmsgs + nodd)) : \E ks \in [1..n -> RoomKinds] :
            /\ wire' = Append(wire, TextFrame([i \in 1..n |-> RoomMsg(ks[i], nmsgs + i)]))
            /\ nmsgs' = nmsgs + n
    /\ UNCHANGED <<srv, nodd, client_vars>>

\* The games argument the caller passes.
GamesArgs == {NoGames, SomeGames({"A"})}

\* ClientMessage::GetDataPackage(GetDataPackage { games })
GetDataPackage(games) == [cmd |-> "GetDataPackage", games |-> games]

\* `if games.is_none()`: the keys of room_info.datapackage_checksums.
default_games(games, room) ==
    IF games.is_some THEN games ELSE SomeGames(room.datapackage_checksums)

\* `Some(ServerMessage::DataPackage(pkg))`
IsDataPackage(m) == m.cmd = "DataPackage"

\* with_data_package, after new has returned the client: the request.
with_data_package_send ==
    /\ pc = "with_data_package"
    /\ \E w \in SendOutcomes :
         IF w = "ok"
         THEN /\ out' = <<Encode(GetDataPackage(default_games(call.games, room_info)))>>
              /\ pc' = "with_data_package_recv"
              /\ ret' = NoResult
              /\ UNCHANGED session_vars
         ELSE /\ out' = <<>>
              /\ pc' = "failed"
              /\ ret' = Err("with_data_package", "NetworkError")
              /\ room_info' = NoMsg
              /\ message_buffer' = <<>>
              /\ data_package' = NoMsg
    /\ UNCHANGED <<server_vars, response, delivered, returned, life_vars, split_vars>>

\* with_data_package, the reply: one recv, which must be the DataPackage; its
\* data is stored and the client returned. On any other outcome the client
\* is dropped with the error.
with_data_package_recv ==
    /\ pc = "with_data_package_recv"
    /\ RecvReady
    /\ LET r == recv(message_buffer, NextFrame) IN
       /\ ReadEffect(r)
       /\ returned' = IF r.tag = "Some" THEN Append(returned, r.msg.id) ELSE returned
       /\ IF r.tag = "Some" /\ IsDataPackage(r.msg)
          THEN /\ data_package' = r.msg
               /\ message_buffer' = r.buf
               /\ room_info' = room_info
               /\ pc' = "idle"
               /\ ret' = Ok("with_data_package", r.msg)
          ELSE /\ room_info' = NoMsg
               /\ message_buffer' = <<>>
               /\ data_package' = NoMsg
               /\ pc' = "failed"
               /\ ret' = CASE r.tag = "Some" ->
                                IllegalResponse("with_data_package", r.msg, "DataPackage")
                           [] r.tag = "None" ->
                                Err("with_data_package", "ConnectionClosed")
                           [] r.tag = "Err" ->
                                Err("with_data_package", r.err)
    /\ UNCHANGED <<out, response, life_vars, split_vars>>

\* ------------------------------------------------------ protocol/bounce.rs
\* serde_json::Value, as far as the bounce payload goes: null, a string, a
\* number, or no value at all where an object has no such key.
JNull == [j |-> "null", s |-> "", n |-> 0]

JStr(x) == [j |-> "string", s |-> x, n |-> 0]

JInt(k) == [j |-> "number", s |-> "", n |-> k]

JAbsent == [j |-> "absent", s |-> "", n |-> 0]

\* A JSON object, by what it has under the keys time, cause and source.
JObj(t, c, src) == [j |-> "object", time |-> t, cause |-> c, source |-> src]

\* No value where the Bounced object has no data key.
NoData == [j |-> "absent", time |-> JAbsent, cause |-> JAbsent, source |-> JAbsent]

\* Option<Vec<_>> and Option<String>.
NoneVec == [is_some |-> FALSE, v |-> <<>>]

SomeVec(x) == [is_some |-> TRUE, v |-> x]

NoneStr == [is_some |-> FALSE, v |-> ""]

SomeStr(x) == [is_some |-> TRUE, v |-> x]

\* A key of the wire object: written with a list, or not written.
NotWritten == [present |-> FALSE, v |-> <<>>]

Written(x) == [present |-> TRUE, v |-> x]

\* SystemTime, counted in half seconds since the epoch, so that a time
\* between two whole seconds exists.
Times == {2, 3}

\* TimestampSeconds<i64>: the whole seconds written for a time, rounded to
\* the nearest; and the time read back from whole seconds.
TimestampSeconds_ToSeconds(t) == (t + 1) \div 2

TimestampSeconds_FromSeconds(n) == 2 * n

\* struct DeathLink
DeathLinks ==
    {[time |-> t, cause |-> c, source |-> "p1"] :
        t \in Times, c \in {NoneStr, SomeStr("lava")}}

NoDeathLink == [time |-> 0, cause |-> NoneStr, source |-> ""]

\* The generic payloads: an empty object, an object with the keys of a
\* DeathLink, and one whose time is not a number.
GenericValues ==
    {JObj(JAbsent, JAbsent, JAbsent),
     JObj(JInt(1), JNull, JStr("p1")),
     JObj(JStr("now"), JAbsent, JStr("p1"))}

\* enum BounceData
DeathLinkData(d) == [variant |-> "DeathLink", death_link |-> d, value |-> JObj(JAbsent, JAbsent, JAbsent)]

GenericData(v) == [variant |-> "Generic", death_link |-> NoDeathLink, value |-> v]

TagLists ==
    {<<>>, <<"DeathLink">>, <<"x">>, <<"x", "DeathLink">>, <<"DeathLink", "DeathLink">>}

\* struct Bounce, whose slots are strings.
Bounces ==
    {[games |-> g, slots |-> sl, tags |-> t, data |-> d] :
        g \in {NoneVec, SomeVec(<<"A">>)},
        sl \in {NoneVec, SomeVec(<<>>), SomeVec(<<"1">>)},
        t \in TagLists,
        d \in {DeathLinkData(x) : x \in DeathLinks}
                \cup {GenericData(v) : v \in GenericValues}}

\* `tags.iter().any(|t| t == "DeathLink")`
HasDeathLink(tags) == \E i \in 1..Len(tags) : tags[i] = "DeathLink"

\* The derived Serialize of DeathLink.
DeathLink_serialize(d) ==
    JObj(JInt(TimestampSeconds_ToSeconds(d.time)),
         IF d.cause.is_some THEN JStr(d.cause.v) ELSE JNull,
         JStr(d.source))

\* The derived Deserialize of DeathLink, through serde_json::from_value.
DeathLink_from_value(v) ==
    IF /\ v.time.j = "number"
       /\ v.source.j = "string"
       /\ v.cause.j \in {"string", "null", "absent"}
    THEN [tag |-> "Ok",
          death_link |-> [time |-> TimestampSeconds_FromSeconds(v.time.n),
                          cause |-> IF v.cause.j = "string" THEN SomeStr(v.cause.s)
                                                            ELSE NoneStr,
                          source |-> v.source.s]]
    ELSE [tag |-> "Err", death_link |-> NoDeathLink]

\* Bounce::serialize: games and slots are written when they are Some; a
\* DeathLink payload is written with the tags and "DeathLink" pushed when no
\* tag is "DeathLink"; a generic payload with the tags when there are any.
Bounce_serialize(b) ==
    [games |-> IF b.games.is_some THEN Written(b.games.v) ELSE NotWritten,
     slots |-> IF b.slots.is_some
               THEN Written([i \in 1..Len(b.slots.v) |-> JStr(b.slots.v[i])])
               ELSE NotWritten,
     tags  |-> IF b.data.variant = "DeathLink"
               THEN Written(IF HasDeathLink(b.tags) THEN b.tags
                                                     ELSE Append(b.tags, "DeathLink"))
               ELSE IF Len(b.tags) > 0 THEN Written(b.tags) ELSE NotWritten,
     data  |-> IF b.data.variant = "DeathLink"
               THEN DeathLink_serialize(b.data.death_link) ELSE b.data.value]

NoWire == [games |-> NotWritten, slots |-> NotWritten, tags |-> NotWritten,
           data |-> JObj(JAbsent, JAbsent, JAbsent)]

\* The wire forms of Bounced a server sends: slots are numbers, and the
\* data key may be missing.
ServerWires ==
    {[games |-> NotWritten, slots |-> Written(<<JInt(1)>>), tags |-> t, data |-> d] :
        t \in {NotWritten, Written(<<"DeathLink">>)},
        d \in GenericValues \cup {NoData}}

\* Result<Bounced, _>
OkBounced(g, sl, t, d) == [tag |-> "Ok", games |-> g, slots |-> sl, tags |-> t, data |-> d]

ErrBounced ==
    [tag |-> "Err", games |-> NoneVec, slots |-> NoneVec, tags |-> <<>>,
     data |-> GenericData(JObj(JAbsent, JAbsent, JAbsent))]

NoBounced ==
    [tag |-> "none", games |-> NoneVec, slots |-> NoneVec, tags |-> <<>>,
     data |-> GenericData(JObj(JAbsent, JAbsent, JAbsent))]

\* InternalBounced::deserialize: games and slots are None when not written,
\* tags default to the empty list, slots are i64, and data is a field that
\* has to be there.
InternalBounced_deserialize(w) ==
    IF /\ \A i \in 1..Len(w.slots.v) : w.slots.v[i].j = "number"
       /\ w.data.j /= "absent"
    THEN [tag |-> "Ok",
          games |-> IF w.games.present THEN SomeVec(w.games.v) ELSE NoneVec,
          slots |-> IF w.slots.present
                    THEN SomeVec([i \in 1..Len(w.slots.v) |-> w.slots.v[i].n])
                    ELSE NoneVec,
          tags  |-> w.tags.v,
          data  |-> w.data]
    ELSE [tag |-> "Err", games |-> NoneVec, slots |-> NoneVec, tags |-> <<>>,
          data |-> w.data]

\* Bounced::deserialize, had it taken the payload for a DeathLink whenever
\* the payload decodes as one.
Bounced_deserialize_ByPayload(w) ==
    LET internal == InternalBounced_deserialize(w)
        d == DeathLink_from_value(internal.data)
    IN  IF internal.tag = "Err" THEN ErrBounced
        ELSE IF d.tag = "Ok"
        THEN OkBounced(internal.games, internal.slots, internal.tags,
                       DeathLinkData(d.death_link))
        ELSE OkBounced(internal.games, internal.slots, internal.tags,
                       GenericData(internal.data))

\* Bounced::deserialize, had it kept a payload that is no DeathLink as a
\* generic one.
Bounced_deserialize_FallsBack(w) ==
    LET internal == InternalBounced_deserialize(w)
        d == DeathLink_from_value(internal.data)
    IN  IF internal.tag = "Err" THEN ErrBounced
        ELSE IF HasDeathLink(internal.tags) /\ d.tag = "Ok"
        THEN OkBounced(internal.games, internal.slots, internal.tags,
                       DeathLinkData(d.death_link))
        ELSE OkBounced(internal.games, internal.slots, internal.tags,
                       GenericData(internal.data))

\* Bounced::deserialize
Bounced_deserialize(w) ==
    LET internal == InternalBounced_deserialize(w)
        d == DeathLink_from_value(internal.data)
    IN  IF internal.tag = "Err" THEN ErrBounced
        ELSE IF HasDeathLink(internal.tags)
        THEN IF d.tag = "Ok"
             THEN OkBounced(internal.games, internal.slots, internal.tags,
                            DeathLinkData(d.death_link))
             ELSE ErrBounced
        ELSE OkBounced(internal.games, internal.slots, internal.tags,
                       GenericData(internal.data))

\* Everything but the call at hand.
rest_vars ==
    <<wire, srv, nmsgs, nodd, out, response, room_info, message_buffer,
      data_package, ret, delivered, returned, attempts, joined, sender, receiver>>

\* A client serializes its Bounce.
SerializeBounce ==
    /\ pc = "bounce"
    /\ call' = [call EXCEPT !.wire = Bounce_serialize(call.input)]
    /\ pc' = "wire"
    /\ UNCHANGED rest_vars

\* A server sends a Bounced of its own.
ServerBounced ==
    /\ pc = "bounce"
    /\ \E w \in ServerWires : call' = [call EXCEPT !.fn = "bounced", !.wire = w]
    /\ pc' = "wire"
    /\ UNCHANGED rest_vars

\* The wire form is deserialized as a Bounced.
DeserializeBounced ==
    /\ pc = "wire"
    /\ call' = [call EXCEPT !.decoded = Bounced_deserialize(call.wire)]
    /\ pc' = "decoded"
    /\ UNCHANGED rest_vars

\* ------------------------------------------------ protocol/rich_message.rs
\* enum RichMessagePart: the three parts that refer to an id and carry a
\* name, and a part that carries its text.
PlayerIdPart(i, nm) == [type |-> "PlayerId", id |-> i, player |-> 0, name |-> nm, text |-> ""]

ItemIdPart(i, p, nm) == [type |-> "ItemId", id |-> i, player |-> p, name |-> nm, text |-> ""]

LocationIdPart(i, p, nm) == [type |-> "LocationId", id |-> i, player |-> p, name |-> nm, text |-> ""]

TextPart(t) == [type |-> "Text", id |-> 0, player |-> 0, name |-> NoneStr, text |-> t]

\* The parts as they are decoded: name is #[serde(skip)], so it is None.
Parts ==
    {PlayerIdPart(i, NoneStr) : i \in {1, 3}}
        \cup {ItemIdPart(i, p, NoneStr) : i \in {42, 7}, p \in {1, 2, 3}}
        \cup {LocationIdPart(42, p, NoneStr) : p \in {1, 2}}
        \cup {TextPart("hi")}

\* The data of a RichPrint: two parts.
Prints == {<<f, g>> : f \in Parts, g \in {TextPart("hi"), ItemIdPart(42, 1, NoneStr)}}

\* Connected: the caller's team, the players of every team, and slot_info
\* from slot number to the slot's game. One roster has no players; one has
\* player 1, of game "A", and slot 2, of game "B"; one has two teams, with a
\* player in slot 1 of each, and the caller on the second.
Rosters ==
    {[team |-> 0, players |-> <<>>, slot_info |-> [p \in {} |-> ""]],
     [team |-> 0, players |-> <<[team |-> 0, slot |-> 1, alias |-> "Al"]>>,
      slot_info |-> [p \in {1, 2} |-> IF p = 1 THEN "A" ELSE "B"]],
     [team |-> 1,
      players |-> <<[team |-> 0, slot |-> 1, alias |-> "Al"],
                    [team |-> 1, slot |-> 1, alias |-> "Bo"]>>,
      slot_info |-> [p \in {1, 2} |-> IF p = 1 THEN "A" ELSE "B"]]}

\* DataPackageObject: games, from a game's name to its GameData. One package
\* has no game, two have game "A" with item 42 under different names.
DataPackages ==
    {[games |-> [g \in {} |-> 0]]}
        \cup {[games |-> [g \in {"A"} |->
                    [item_name_to_id |-> [n \in {item} |-> 42],
                     location_name_to_id |-> [n \in {"Cave"} |-> 42]]]] :
                item \in {"Sword", "Shield"}}

\* The inverse, had it left out the entry of the greatest id.
id_to_name_Lossy(forward) ==
    LET ids == {forward[n] : n \in DOMAIN forward}
    IN  [i \in {j \in ids : \E m \in ids : m > j} |->
            CHOOSE n \in DOMAIN forward : forward[n] = i]

\* The inverse of a forward map, which is injective.
id_to_name(forward) ==
    [i \in {forward[n] : n \in DOMAIN forward} |->
        CHOOSE n \in DOMAIN forward : forward[n] = i]

\* GameData::item_id_to_name and GameData::location_id_to_name
item_id_to_name(g) == id_to_name(g.item_name_to_id)

location_id_to_name(g) == id_to_name(g.location_name_to_id)

\* The forward maps of a GameData, from name to id, without duplicate ids.
ForwardMaps ==
    LET names == {"Sword", "Shield", "Cave"}
        ids == {42, 7, 1}
    IN  UNION {{f \in [d -> ids] : \A a, b \in d : f[a] = f[b] => a = b} :
                d \in SUBSET names}

\* `connected.players.iter().find(|p| p.slot == *id)`, as the alias found.
find_player(connected, i) ==
    LET ks == {k \in 1..Len(connected.players) : connected.players[k].slot = i}
    IN  IF ks = {} THEN NoneStr
        ELSE SomeStr(connected.players[CHOOSE k \in ks : \A m \in ks : k <= m].alias)

\* `connected.slot_info.get(player).and_then(games.get(game)).and_then(
\* index.get(id))`, for the index of items or of locations.
id_lookup(player, i, connected, package, kind) ==
    IF player \notin DOMAIN connected.slot_info THEN NoneStr
    ELSE LET game == connected.slot_info[player] IN
         IF game \notin DOMAIN package.games THEN NoneStr
         ELSE LET g == package.games[game]
                  index == IF kind = "item" THEN item_id_to_name(g)
                                            ELSE location_id_to_name(g)
              IN  IF i \in DOMAIN index THEN SomeStr(index[i]) ELSE NoneStr

\* add_name, had it turned a PlayerId it resolves into a PlayerName.
add_name_Converts(part, connected, package) ==
    LET found ==
            CASE part.type = "PlayerId" -> find_player(connected, part.id)
              [] part.type = "ItemId" ->
                    id_lookup(part.player, part.id, connected, package, "item")
              [] part.type = "LocationId" ->
                    id_lookup(part.player, part.id, connected, package, "location")
              [] OTHER -> NoneStr
    IN  IF ~found.is_some THEN part
        ELSE IF part.type = "PlayerId"
        THEN [part EXCEPT !.type = "PlayerName", !.text = found.v]
        ELSE [part EXCEPT !.name = found]

\* add_name, had it looked items up in the index of locations.
add_name_ItemsInLocations(part, connected, package) ==
    LET found ==
            CASE part.type = "PlayerId" -> find_player(connected, part.id)
              [] part.type = "ItemId" ->
                    id_lookup(part.player, part.id, connected, package, "location")
              [] part.type = "LocationId" ->
                    id_lookup(part.player, part.id, connected, package, "location")
              [] OTHER -> NoneStr
    IN  IF found.is_some THEN [part EXCEPT !.name = found] ELSE part

\* add_name, had it set the name to what the lookup gives, found or not.
add_name_Clears(part, connected, package) ==
    LET found ==
            CASE part.type = "PlayerId" -> find_player(connected, part.id)
              [] part.type = "ItemId" ->
                    id_lookup(part.player, part.id, connected, package, "item")
              [] part.type = "LocationId" ->
                    id_lookup(part.player, part.id, connected, package, "location")
              [] OTHER -> NoneStr
    IN  IF part.type \in {"PlayerId", "ItemId", "LocationId"}
        THEN [part EXCEPT !.name = found] ELSE part

\* RichMessagePart::add_name: the name is replaced when the lookup finds
\* one, and the part is left as it is otherwise.
add_name(part, connected, package) ==
    LET found ==
            CASE part.type = "PlayerId" -> find_player(connected, part.id)
              [] part.type = "ItemId" ->
                    id_lookup(part.player, part.id, connected, package, "item")
              [] part.type = "LocationId" ->
                    id_lookup(part.player, part.id, connected, package, "location")
              [] OTHER -> NoneStr
    IN  IF found.is_some THEN [part EXCEPT !.name = found] ELSE part

\* RichPrint::add_names
add_names(print, connected, package) ==
    [k \in 1..Len(print) |-> add_name(print[k], connected, package)]

\* What fmt writes: a text, or a placeholder with the numbers put into it.
Written_Text(t) == [text |-> t, player |-> 0, id |-> 0]

\* fmt, had it written the id where the owning slot goes.
fmt_SwapsOwner(part) ==
    CASE part.type \in {"PlayerId", "ItemId", "LocationId"} /\ part.name.is_some ->
            Written_Text(part.name.v)
      [] part.type = "PlayerId" -> [text |-> "<player {}>", player |-> 0, id |-> part.id]
      [] part.type = "ItemId" -> [text |-> "<item {}:{}>", player |-> part.id, id |-> part.player]
      [] part.type = "LocationId" -> [text |-> "<loc {}:{}>", player |-> part.id, id |-> part.player]
      [] OTHER -> Written_Text(part.text)

\* RichMessagePart::fmt
fmt(part) ==
    CASE part.type \in {"PlayerId", "ItemId", "LocationId"} /\ part.name.is_some ->
            Written_Text(part.name.v)
      [] part.type = "PlayerId" -> [text |-> "<player {}>", player |-> 0, id |-> part.id]
      [] part.type = "ItemId" -> [text |-> "<item {}:{}>", player |-> part.player, id |-> part.id]
      [] part.type = "LocationId" -> [text |-> "<loc {}:{}>", player |-> part.player, id |-> part.id]
      [] OTHER -> Written_Text(part.text)

\* How often add_names is applied to one print.
MaxApplied == 3

\* item_id_to_name() or location_id_to_name() is called on the GameData:
\* the table is computed on the first call and kept, and the table kept is
\* returned. The call keeps what was kept before it.
IdToName ==
    /\ pc = "game_data"
    /\ call.calls < MaxApplied
    /\ \E kind \in {"item", "location"} :
         LET kept == call.index[kind]
             table == IF kept.is_some THEN kept.v
                      ELSE IF kind = "item" THEN item_id_to_name(call.game)
                                            ELSE location_id_to_name(call.game)
         IN  call' = [call EXCEPT !.index[kind] = [is_some |-> TRUE, v |-> table],
                                  !.kind = kind,
                                  !.kept = kept,
                                  !.result = table,
                                  !.calls = call.calls + 1]
    /\ UNCHANGED <<pc, rest_vars>>

\* add_names is applied to the print, with a roster and a data package. The
\* call keeps the print as it was before, and whether the roster and the data
\* package are those of the application before.
AddNames ==
    /\ pc = "print"
    /\ call.applied < MaxApplied
    /\ \E c \in Rosters : \E dp \in DataPackages :
         call' = [call EXCEPT !.print = add_names(call.print, c, dp),
                              !.before = call.print,
                              !.connected = c,
                              !.data_package = dp,
                              !.same = (call.applied > 0 /\ c = call.connected
                                            /\ dp = call.data_package),
                              !.applied = call.applied + 1,
                              !.shown = <<>>]
    /\ UNCHANGED <<pc, rest_vars>>

\* The print is displayed: fmt of each part, in order.
Display ==
    /\ pc = "print"
    /\ call.shown = <<>>
    /\ call' = [call EXCEPT !.shown = [k \in 1..Len(call.print) |-> fmt(call.print[k])]]
    /\ UNCHANGED <<pc, rest_vars>>

\* ------------------------------------------------------ ItemsHandlingFlags
\* The named flags of ItemsHandlingFlags and their bits.
ItemsHandlingFlags ==
    [f \in {"OTHER_WORLDS", "OWN_WORLD", "STARTING_INVENTORY"} |->
        CASE f = "OTHER_WORLDS" -> 1
          [] f = "OWN_WORLD" -> 3
          [] f = "STARTING_INVENTORY" -> 5]

\* & and | of two u8.
BitAnd(a, b) ==
    LET and[k \in 0..8] ==
            IF k = 8 THEN 0
            ELSE ((a \div (2 ^ k)) % 2) * ((b \div (2 ^ k)) % 2) * (2 ^ k) + and[k + 1]
    IN  and[0]

BitOr(a, b) == a + b - BitAnd(a, b)

\* all(): the bits of every named flag.
all == BitOr(BitOr(ItemsHandlingFlags["OTHER_WORLDS"], ItemsHandlingFlags["OWN_WORLD"]),
             ItemsHandlingFlags["STARTING_INVENTORY"])

\* contains, had it been intersects.
contains_Intersects(bits, other) == BitAnd(bits, other) /= 0

\* contains: every bit of other is set.
contains(bits, other) == BitAnd(bits, other) = other

\* ItemsHandlingFlags::empty()
empty ==
    /\ pc = "flags"
    /\ call' = [fn |-> "empty", arg |-> 0, bits |-> 0, ok |-> TRUE,
                selected |-> {}, named |-> TRUE]
    /\ UNCHANGED <<pc, rest_vars>>

\* insert(flag), which is also what | of named flags does.
insert ==
    /\ pc = "flags"
    /\ \E f \in DOMAIN ItemsHandlingFlags :
         call' = [call EXCEPT !.fn = "insert",
                              !.arg = ItemsHandlingFlags[f],
                              !.bits = BitOr(call.bits, ItemsHandlingFlags[f]),
                              !.ok = TRUE,
                              !.selected = call.selected \cup {f}]
    /\ UNCHANGED <<pc, rest_vars>>

\* remove(flag): the bits of the flag are cleared. The value is no longer
\* one built from the named flags.
remove ==
    /\ pc = "flags"
    /\ \E f \in DOMAIN ItemsHandlingFlags :
         call' = [call EXCEPT !.fn = "remove",
                              !.arg = ItemsHandlingFlags[f],
                              !.bits = BitAnd(call.bits, 255 - ItemsHandlingFlags[f]),
                              !.ok = TRUE,
                              !.selected = call.selected \ {f},
                              !.named = FALSE]
    /\ UNCHANGED <<pc, rest_vars>>

\* from_bits(n): Some of the value with the bits n when n has no bit outside
\* all(), None otherwise.
from_bits ==
    /\ pc = "flags"
    /\ \E n \in 0..255 :
         IF BitAnd(n, 255 - all) = 0
         THEN call' = [fn |-> "from_bits", arg |-> n, bits |-> n, ok |-> TRUE,
                       selected |-> {}, named |-> FALSE]
         ELSE call' = [call EXCEPT !.fn = "from_bits", !.arg = n, !.ok = FALSE]
    /\ UNCHANGED <<pc, rest_vars>>

\* ---------------------------------------------------------- specification
\* A session whose transport has just been opened, at the first attempt.
Init ==
    /\ wire = <<>>
    /\ srv = "open"
    /\ nmsgs = 0
    /\ nodd = 0
    /\ out = <<>>
    /\ pc = "new"
    /\ response = NoMsg
    /\ room_info = NoMsg
    /\ message_buffer = <<>>
    /\ data_package = NoMsg
    /\ ret = NoResult
    /\ delivered = 0
    /\ returned = <<>>
    /\ attempts = <<Attempt(wss_url("localhost:38281"), "ok")>>
    /\ joined = FALSE
    /\ sender = NoSender
    /\ receiver = NoReceiver
    /\ call = NewCall

Server == ServerSendText \/ ServerSendOdd \/ ServerClose

\* A session used through recv alone.
NextRecv == Server \/ New \/ Recv

SpecRecv == Init /\ [][NextRecv]_vars

\* A session used through recv and send, with a server that also writes
\* messages outside an array.
NextCodec == ServerSendBare \/ Send \/ NextRecv

SpecCodec == Init /\ [][NextCodec]_vars

\* The steps of the selective-wait loops.
Wait == sync_wait \/ location_scouts_wait \/ get_wait \/ set_wait

\* What the two halves of a split session offer.
Halves == sender_send \/ ReceiverRecv \/ receiver_room_info \/ receiver_data_package

Client ==
    \/ New \/ Recv \/ Send
    \/ connect_send \/ connect_reply
    \/ sync_send \/ location_scouts_send \/ get_send \/ set_send
    \/ Wait
    \/ Disconnect \/ room_info_getter \/ data_package_getter
    \/ split \/ Halves

Next == Server \/ Client

Spec == Init /\ [][Next]_vars

\* The caller's task is scheduled whenever it can run: an operation that has
\* a message to look at, or a stream item to read, takes its next step.
FairSpec == Spec /\ WF_vars(connect_reply) /\ WF_vars(Wait)

\* new from the start: no transport yet, and the server writes nothing to a
\* client that has not connected.
InitConnect ==
    /\ wire = <<>>
    /\ srv = "open"
    /\ nmsgs = 0
    /\ nodd = 0
    /\ out = <<>>
    /\ pc = "unconnected"
    /\ response = NoMsg
    /\ room_info = NoMsg
    /\ message_buffer = <<>>
    /\ data_package = NoMsg
    /\ ret = NoResult
    /\ delivered = 0
    /\ returned = <<>>
    /\ attempts = <<>>
    /\ joined = FALSE
    /\ sender = NoSender
    /\ receiver = NoReceiver
    /\ call = NewCall

NextConnect == new_connect \/ (pc /= "unconnected" /\ Next)

SpecConnect == InitConnect /\ [][NextConnect]_vars

\* A session made by with_data_package, from the point where the transport is
\* established, against a server that sends RoomInfo, RoomUpdate and
\* DataPackage messages.
InitFetch ==
    /\ wire = <<>>
    /\ srv = "open"
    /\ nmsgs = 0
    /\ nodd = 0
    /\ out = <<>>
    /\ pc = "new"
    /\ response = NoMsg
    /\ room_info = NoMsg
    /\ message_buffer = <<>>
    /\ data_package = NoMsg
    /\ ret = NoResult
    /\ delivered = 0
    /\ returned = <<>>
    /\ attempts = <<Attempt(wss_url("localhost:38281"), "ok")>>
    /\ joined = FALSE
    /\ sender = NoSender
    /\ receiver = NoReceiver
    /\ call \in {[fn |-> "with_data_package", games |-> g] : g \in GamesArgs}

NextFetch ==
    \/ RoomSendText \/ ServerSendOdd \/ ServerClose
    \/ with_data_package_send \/ with_data_package_recv
    \/ Client

SpecFetch == InitFetch /\ [][NextFetch]_vars

\* The state of everything but the call at hand, in the specifications of
\* the pure functions of the protocol.
InitRest ==
    /\ wire = <<>>
    /\ srv = "open"
    /\ nmsgs = 0
    /\ nodd = 0
    /\ out = <<>>
    /\ response = NoMsg
    /\ room_info = NoMsg
    /\ message_buffer = <<>>
    /\ data_package = NoMsg
    /\ ret = NoResult
    /\ delivered = 0
    /\ returned = <<>>
    /\ attempts = <<>>
    /\ joined = FALSE
    /\ sender = NoSender
    /\ receiver = NoReceiver

\* A Bounce is serialized and its wire form, or the wire form of a server's
\* Bounced, is deserialized.
InitBounce ==
    /\ InitRest
    /\ pc = "bounce"
    /\ call \in {[fn |-> "bounce", input |-> b, wire |-> NoWire, decoded |-> NoBounced] :
                    b \in Bounces}

NextBounce == SerializeBounce \/ ServerBounced \/ DeserializeBounced

SpecBounce == InitBounce /\ [][NextBounce]_vars

\* A decoded print has its names added, again and again, and is displayed.
InitNames ==
    /\ InitRest
    /\ pc = "print"
    /\ call \in {[fn |-> "add_names", print |-> p, before |-> p,
                   connected |-> c, data_package |-> dp,
                   same |-> FALSE, applied |-> 0, shown |-> <<>>] :
                    p \in Prints,
                    c \in {r \in Rosters : r.players = <<>>},
                    dp \in {d \in DataPackages : DOMAIN d.games = {}}}

NextNames == AddNames \/ Display

SpecNames == InitNames /\ [][NextNames]_vars

\* A GameData as it is received, and the calls of its inverse indexes.
InitIndex ==
    /\ InitRest
    /\ pc = "game_data"
    /\ call \in {[fn |-> "id_to_name",
                   game |-> [item_name_to_id |-> f, location_name_to_id |-> g],
                   input |-> [item_name_to_id |-> f, location_name_to_id |-> g],
                   index |-> [k \in {"item", "location"} |-> [is_some |-> FALSE, v |-> <<>>]],
                   kind |-> "none",
                   kept |-> [is_some |-> FALSE, v |-> <<>>],
                   result |-> <<>>,
                   calls |-> 0] :
                    f \in ForwardMaps,
                    g \in {h \in ForwardMaps : DOMAIN h \subseteq {"Cave"}}}

NextIndex == IdToName

SpecIndex == InitIndex /\ [][NextIndex]_vars

\* Values of ItemsHandlingFlags are built and taken apart.
InitFlags ==
    /\ InitRest
    /\ pc = "flags"
    /\ call = [fn |-> "empty", arg |-> 0, bits |-> 0, ok |-> TRUE,
               selected |-> {}, named |-> TRUE]

NextFlags == empty \/ insert \/ remove \/ from_bits

SpecFlags == InitFlags /\ [][NextFlags]_vars

\* ================================================================= claims
\* The ids of a sequence of messages, and how often an id occurs in a sequence.
Ids(ms) == [i \in 1..Len(ms) |-> ms[i].id]

Count(i, ids) == Cardinality({k \in 1..Len(ids) : ids[k] = i})

\* The messages recv can hand out next: those buffered and those on the wire.
Pending ==
    {message_buffer[k] : k \in 1..Len(message_buffer)}
        \cup UNION {{wire[w].msgs[k] : k \in 1..Len(wire[w].msgs)} : w \in 1..Len(wire)}

\* The message an operation has just been handed, found by the id the
\* step appends to the history.
Handed == CHOOSE x \in Pending : x.id = Last(returned')

\* The ids of the messages of a buffer in the order successive recv calls
\* hand them out.
RECURSIVE Drain(_)
Drain(buf) ==
    IF buf = <<>> THEN <<>>
    ELSE LET r == recv(buf, EndOfStream) IN <<r.msg.id>> \o Drain(r.buf)

\* The ids lo, lo + 1, ..., hi in order.
Run(lo, hi) == [n \in 1..(hi + 1 - lo) |-> lo + n - 1]

\* The messages on the wire, in the order the server sent them.
RECURSIVE Flat(_)
Flat(w) == IF w = <<>> THEN <<>> ELSE Head(w).msgs \o Flat(Tail(w))

\* The smallest of a non-empty sequence of ids.
Oldest(ids) == CHOOSE i \in {ids[k] : k \in 1..Len(ids)} :
                  \A k \in 1..Len(ids) : i <= ids[k]

\* C1 as stated: when, the request sent and nothing buffered, the stream holds
\* k >= 0 messages that are not of the expected reply type followed by one
\* that is (ids j..i, the reply last), the operation returns that reply and the
\* buffer then hands the k other messages to recv in the order they were sent.
C1_Stream(j, i) ==
    /\ pc \in SelOps
    /\ response = NoMsg
    /\ message_buffer = <<>>
    /\ out = <<Encode(Request(pc))>>
    /\ wire /= <<>>
    /\ \A w \in 1..Len(wire) : wire[w].kind = "text"
    /\ delivered = j - 1
    /\ nmsgs = i
    /\ Last(Flat(wire)).cmd = Expected(pc)
    /\ \A k \in 1..(Len(Flat(wire)) - 1) : Flat(wire)[k].cmd /= Expected(pc)

C1_Replied(j, i) ==
    /\ pc = "idle"
    /\ ret.op \in SelOps
    /\ ret.tag = "Ok"
    /\ ret.msg.id = i
    /\ Drain(message_buffer) = Run(j, i - 1)

C1_SelectiveWaitReturnsReply ==
    \A j \in 2..MaxSent : \A i \in j..MaxSent : C1_Stream(j, i) ~> C1_Replied(j, i)

\* C2 as stated: a selective-wait operation returns once the server has
\* delivered a message of the expected reply type or has closed the
\* transport, however many other messages come first.
MatchOnWire(o) == \E k \in 1..Len(Flat(wire)) : Flat(wire)[k].cmd = Expected(o)

C2_SelectiveWaitTerminates ==
    \A o \in SelOps :
        (pc = o /\ (MatchOnWire(o) \/ srv = "closed")) ~> (pc = "idle")

\* C3 as stated: in a session used through recv alone, the messages recv has
\* returned are the messages the server sent after the RoomInfo, in the order
\* it sent them, whatever frames they came in.
C3_RecvInServerOrder == returned = Run(2, Len(returned) + 1)

\* C4 as stated: when new returns, the messages that followed the RoomInfo in
\* its frame are all in the buffer, and recv hands them out in the order the
\* server sent them.
C4_RoomInfoFrameKept ==
    (ret.op = "new" /\ ret.tag = "Ok") => Drain(message_buffer) = Run(2, delivered)

\* C5 as stated: a recv that returns a message returns the oldest buffered one
\* and leaves the stream alone when the buffer is not empty; when it is empty
\* recv takes exactly one frame off the stream, returns its first message and
\* keeps the rest of the frame in the buffer.
C5_RecvOldestFirst ==
    [][(pc = "idle" /\ ret'.op = "recv" /\ returned' /= returned)
        => IF message_buffer /= <<>>
           THEN /\ wire' = wire
                /\ Last(returned') = Oldest(Ids(message_buffer))
                /\ Len(message_buffer') = Len(message_buffer) - 1
           ELSE /\ wire /= <<>>
                /\ wire' = Tail(wire)
                /\ Last(returned') = Head(Head(wire).msgs).id
                /\ Drain(message_buffer') = Ids(Tail(Head(wire).msgs))]_vars

\* C6 as stated: recv returns Ok(None) only once the stream has ended and the
\* buffer is empty, never while the transport is open.
C6_EmptyOnlyWhenClosed ==
    ret = OkNone("recv") => (srv = "closed" /\ wire = <<>> /\ message_buffer = <<>>)

\* C7: during a selective-wait operation a message that is not of the expected
\* reply type never makes the operation return or fail, and is never dropped:
\* when the loop lets go of it, the operation is still waiting, no result has
\* been produced and the message is on the buffer.
C7_UnrelatedIsPushedBack ==
    [][(pc \in SelOps /\ response /= NoMsg /\ response.cmd /= Expected(pc)
            /\ response' /= response)
        => /\ pc' = pc
           /\ ret' = ret
           /\ Count(response.id, Ids(message_buffer')) = 1
           /\ Count(response.id, returned') = 0]_vars

C7_Witness ==
    /\ pc \in SelOps
    /\ response /= NoMsg
    /\ response.cmd /= Expected(pc)
    /\ delivered > 1

\* C8: new fails with IllegalResponse (expected RoomInfo) when the first
\* inbound message is anything other than RoomInfo, and with ConnectionClosed
\* when the transport closes before any message; in both cases no session is
\* created.
C8_NewRejects ==
    [][(pc = "new" /\ pc' /= "new")
        => /\ (NextFrame.kind = "text" /\ Head(NextFrame.msgs).cmd /= "RoomInfo")
                => /\ pc' = "failed"
                   /\ ret' = IllegalResponse("new", Head(NextFrame.msgs),
                                             "Expected RoomInfo")
                   /\ UNCHANGED session_vars
           /\ NextFrame.kind = "close"
                => /\ pc' = "failed"
                   /\ ret' = Err("new", "ConnectionClosed")
                   /\ UNCHANGED session_vars]_vars

C8_Witness ==
    /\ pc = "failed"
    /\ ret.err = "IllegalResponse"
    /\ ret.msg.cmd /= "RoomInfo"
    /\ room_info = NoMsg

\* C9: connect writes one Connect request and, when the reply recv hands it is
\* Connected, returns that message; when the reply is of any other type it
\* fails with IllegalResponse carrying the received message and the expected
\* kind "Connected".
C9_ConnectReply ==
    [][(pc = "connect" /\ pc' = "idle" /\ returned' /= returned)
        => /\ out' = <<Encode("Connect")>>
           /\ ret' = IF Handed.cmd = "Connected"
                     THEN Ok("connect", Handed)
                     ELSE IllegalResponse("connect", Handed, "Connected")]_vars

C9_Witness ==
    /\ ret.op = "connect"
    /\ ret.err = "IllegalResponse"
    /\ ret.expected = "Connected"
    /\ ret.msg.cmd \in ServerCmds \ {"Connected"}
    /\ out = <<Encode("Connect")>>

\* C10 as stated: a message that is not Connected and that connect comes upon
\* while it waits for the Connected reply is queued in the buffer.
C10_UnrelatedQueuedByConnect ==
    (ret.op = "connect" /\ ret.msg /= NoMsg /\ ret.msg.cmd /= "Connected")
        => Count(ret.msg.id, Ids(message_buffer)) = 1

\* C10 amended: connect takes exactly one message from recv. Every other
\* message decoded so far is in the buffer or was handed to the caller, once;
\* the one connect took is not queued: it is returned when it is Connected and
\* is handed to the caller inside IllegalResponse when it is not.
C10_ConnectKeepsTheRest ==
    ret.op = "connect"
        => /\ \A i \in 2..delivered :
                Count(i, Ids(message_buffer)) + Count(i, returned) = 1
           /\ ret.msg /= NoMsg
                => /\ ret.msg.id = Last(returned)
                   /\ Count(ret.msg.id, Ids(message_buffer)) = 0

C10_Witness ==
    /\ ret = Ok("connect", ret.msg)
    /\ ret.msg.cmd = "Connected"
    /\ message_buffer /= <<>>

\* C11 as stated: when the connection closes while a selective-wait operation
\* is waiting and no reply of the expected type has arrived or is still to be
\* read, the call fails with ConnectionClosed, its request written exactly once.
C11_ClosedBeforeReply(o) ==
    /\ pc = o
    /\ srv = "closed"
    /\ \A w \in 1..Len(wire) : wire[w].kind \in {"text", "close"}
    /\ \A m \in Pending \cup {response} : m.cmd /= Expected(o)

C11_Failed(o) ==
    /\ pc = "idle"
    /\ ret = Err(o, "ConnectionClosed")
    /\ out = <<Encode(Request(o))>>

C11_ClosedWaitFails ==
    \A o \in SelOps : C11_ClosedBeforeReply(o) ~> C11_Failed(o)

\* C12 as stated: new, connect and the selective-wait operations return
\* ConnectionClosed only when the server has ended the stream, never while the
\* connection is open.
C12_ClosedOnlyWhenDropped ==
    (/\ ret.op \in SelOps \cup {"new", "connect"}
     /\ ret.tag = "Err"
     /\ ret.err = "ConnectionClosed") => srv = "closed"

\* C13: send, and with it say, location_checks, status_update and bounce,
\* writes exactly one frame holding exactly one message and returns without
\* reading the stream or waiting for a reply.
C13_SendIsFireAndForget ==
    [][ret'.op = "send"
        => /\ Len(wire') >= Len(wire)
           /\ delivered' = delivered
           /\ returned' = returned
           /\ message_buffer' = message_buffer
           /\ pc' = "idle"
           /\ ret'.tag = "OkNone"
                => /\ Len(out') = 1
                   /\ Len(out'[1]) = 1
                   /\ out'[1][1] \in SendCmds]_vars

C13_Witness ==
    /\ ret = OkNone("send")
    /\ wire /= <<>>
    /\ message_buffer /= <<>>

\* C14: the session's buffer changes only in new, which creates it, in recv,
\* in connect and the selective-wait loops, which call recv, and in split,
\* which hands it over; send and its helpers, disconnect and the getters
\* room_info and data_package leave it as it is, and so do the Receiver's
\* getters with the Receiver's buffer.
C14_BufferFrame ==
    [][/\ ret'.op \in {"send", "disconnect", "room_info", "data_package"}
            => message_buffer' = message_buffer
       /\ ret'.op \in {"receiver_room_info", "receiver_data_package"}
            => receiver'.message_buffer = receiver.message_buffer
       /\ message_buffer' /= message_buffer
            => \/ pc \in SelOps \cup {"new", "connect"}
               \/ ret'.op \in {"recv", "split"}]_vars

C14_Witness ==
    /\ ret.op = "disconnect"
    /\ message_buffer /= <<>>

\* C15: split hands the session's buffer to the Receiver as it is, and the
\* Receiver's recv does with a buffer and a stream item what the session's recv
\* does: the Receiver returns what the session would have returned, buffered
\* messages first.
C15_ReceiverContinuesSession ==
    /\ [][(receiver.ws = "none" /\ receiver'.ws = "stream")
            => receiver'.message_buffer = message_buffer]_vars
    /\ [](receiver.ws = "stream"
            => receiver_recv(receiver.message_buffer, NextFrame)
                 = recv(receiver.message_buffer, NextFrame))

C15_Witness ==
    /\ receiver.ws = "stream"
    /\ ret.op = "receiver_recv"
    /\ ret.tag = "Ok"
    /\ receiver.message_buffer /= <<>>
    /\ wire /= <<>>

\* C16: after split a send leaves the Receiver, the stream and the record of
\* what was returned as they are, and every step that changes one of them is
\* the Receiver's recv, whose effect is a function of the Receiver's buffer and
\* the next stream item alone and leaves what the Sender wrote as it is.
C16_HalvesIndependent ==
    [][sender.ws = "sink"
        => /\ ret'.op = "sender_send"
                => /\ receiver' = receiver
                   /\ Len(wire') >= Len(wire)
                   /\ delivered' = delivered
                   /\ returned' = returned
           /\ (\/ receiver' /= receiver
               \/ returned' /= returned
               \/ delivered' /= delivered
               \/ Len(wire') < Len(wire))
                => LET r == receiver_recv(receiver.message_buffer, NextFrame) IN
                   /\ ret'.op = "receiver_recv"
                   /\ receiver' = [receiver EXCEPT !.message_buffer = r.buf]
                   /\ wire' = IF r.read THEN RestOfWire ELSE wire
                   /\ returned' = IF r.tag = "Some"
                                  THEN Append(returned, r.msg.id) ELSE returned
                   /\ out' = out]_vars

C16_Witness ==
    /\ ret = OkNone("sender_send")
    /\ receiver.message_buffer /= <<>>
    /\ wire /= <<>>
    /\ returned /= <<>>

\* C17 as stated: split gives each half, the Sender and the Receiver, the
\* RoomInfo and the data package the session held.
C17_BothHalvesHoldMetadata ==
    [][(receiver.ws = "none" /\ receiver'.ws = "stream")
        => \A h \in {sender', receiver'} :
             /\ {"room_info", "data_package"} \subseteq DOMAIN h
             /\ h.room_info = room_info
             /\ h.data_package = data_package]_vars

\* C17: split gives the Receiver the RoomInfo and the data package the session
\* held, and the Receiver keeps them; the Sender holds the write half of the
\* websocket and nothing else.
C17_ReceiverHoldsMetadata ==
    [][/\ (receiver.ws = "none" /\ receiver'.ws = "stream")
            => /\ receiver'.room_info = room_info
               /\ receiver'.data_package = data_package
               /\ DOMAIN sender' = {"ws"}
       /\ receiver.ws = "stream"
            => /\ receiver'.room_info = receiver.room_info
               /\ receiver'.data_package = receiver.data_package
               /\ sender' = sender]_vars

C17_Witness ==
    /\ ret.op = "receiver_room_info"
    /\ ret.msg.cmd = "RoomInfo"
    /\ ret.msg = receiver.room_info
    /\ DOMAIN sender = {"ws"}

\* C18: once split has made the halves, no step is a step of connect, sync,
\* location_scouts, get or set, or of any other operation of the session:
\* what is written is written by the Sender's send, and the stream is read
\* by the Receiver's recv only.
C18_NoPairedOperationAfterSplit ==
    [][sender.ws = "sink"
        => /\ pc' = "split"
           /\ response' = NoMsg
           /\ joined' = joined
           /\ UNCHANGED session_vars
           /\ ret'.op \in {"split", "sender_send", "receiver_recv",
                           "receiver_room_info", "receiver_data_package"}
           /\ out' /= out => ret'.op = "sender_send"
           /\ Len(wire') < Len(wire) => ret'.op = "receiver_recv"]_vars

C18_Witness ==
    /\ sender.ws = "sink"
    /\ ret.op = "receiver_recv"
    /\ out /= <<>>

\* C19: new opens the websocket over wss first; it makes a second attempt,
\* over ws at the same address, exactly when the first ended in a TLS error,
\* and never a third; an attempt that ends in any other error, or a second
\* attempt that ends in an error, makes new fail with NetworkError.
C19_TlsFallbackOnce ==
    /\ Len(attempts) <= 2
    /\ pc /= "unconnected"
         => /\ attempts /= <<>>
            /\ attempts[1].url.scheme = "wss"
    /\ Len(attempts) = 2
         <=> (attempts /= <<>> /\ attempts[1].result = "Tls")
    /\ Len(attempts) = 2
         => /\ attempts[2].url.scheme = "ws"
            /\ attempts[2].url.addr = attempts[1].url.addr
    /\ (attempts /= <<>> /\ Last(attempts).result /= "ok")
         => /\ pc = "failed"
            /\ ret = Err("new", "NetworkError")
            /\ room_info = NoMsg

C19_Witness ==
    /\ Len(attempts) = 2
    /\ pc = "idle"
    /\ room_info.cmd = "RoomInfo"

\* C20: the lifecycle only moves forward. The histories attempts, delivered
\* and joined only grow, so a step back would leave a state of an earlier stage
\* with the past of a later one. Unconnected has no past at all; with the
\* transport established and new still to read, nothing has been decoded and
\* there is no RoomInfo and no slot; a failed new never had a session; a
\* session, split or not, holds its RoomInfo over the one websocket that was
\* opened; and no websocket is opened after one has been opened, whatever
\* became of it.
C20_LifecycleForward ==
    /\ pc = "unconnected"
         => /\ attempts = <<>>
            /\ delivered = 0
            /\ room_info = NoMsg
            /\ ~joined
            /\ sender = NoSender
    /\ pc = "new"
         => /\ Last(attempts).result = "ok"
            /\ delivered = 0
            /\ room_info = NoMsg
            /\ ~joined
            /\ sender = NoSender
    /\ pc = "failed"
         => /\ room_info = NoMsg
            /\ ~joined
            /\ sender = NoSender
    /\ pc \notin {"unconnected", "new", "failed"}
         => /\ Last(attempts).result = "ok"
            /\ delivered >= 1
            /\ (IF pc = "split" THEN receiver.room_info ELSE room_info).cmd = "RoomInfo"
    /\ \A i \in 1..(Len(attempts) - 1) : attempts[i].result /= "ok"

C20_Witness ==
    /\ joined
    /\ srv = "closed"
    /\ Len(attempts) = 2
    /\ ret.op = "recv"

\* C21: the RoomInfo the constructor captured stays what it is for the whole
\* life of the session: no step of a live session changes room_info (not the
\* data-package fetch, not receiving a RoomUpdate, not any send or wait),
\* split moves it unchanged into the Receiver, which keeps it unchanged, and
\* the getters of the session and of the Receiver return exactly it.
C21_RoomInfoImmutable ==
    [][ /\ (room_info /= NoMsg /\ pc' \notin {"failed", "split"})
            => room_info' = room_info
        /\ (room_info /= NoMsg /\ pc' = "split")
            => receiver'.room_info = room_info
        /\ receiver.ws = "stream" => receiver'.room_info = receiver.room_info
        /\ ret'.op = "room_info" => ret'.msg = room_info
        /\ ret'.op = "receiver_room_info" => ret'.msg = receiver.room_info
      ]_vars

\* C21 witness: after the fetch stored the data package, recv has handed out
\* a RoomUpdate and the session still holds the RoomInfo of the constructor.
C21_Witness ==
    /\ pc = "idle"
    /\ data_package.cmd = "DataPackage"
    /\ ret.op = "recv"
    /\ ret.tag = "Ok"
    /\ ret.msg.cmd = "RoomUpdate"
    /\ room_info.cmd = "RoomInfo"

\* What holds of a session once the fetch has stored the reply: the one
\* request is what was written, and data_package() returns the stored reply.
C22_Stored ==
    /\ (ret.op = "with_data_package" /\ ret.tag = "Ok")
            => /\ Len(out) = 1
               /\ out[1][1].cmd = "GetDataPackage"
               /\ data_package = ret.msg
    /\ (pc \notin {"new", "with_data_package", "with_data_package_recv",
                    "failed", "split"})
            => data_package.cmd = "DataPackage"
    /\ ret.op = "data_package" => (ret.tag = "Ok" /\ ret.msg = data_package)

\* C22: the data-package fetch sends one GetDataPackage request and waits
\* selectively for the DataPackage reply: a message of another kind that
\* arrives first is buffered, so the fetch never fails with an unexpected
\* response; the reply is stored and data_package() returns it for the rest
\* of the session.
C22_FetchWaitsSelectively ==
    /\ (ret.op = "with_data_package" /\ ret.tag = "Err")
            => ret.err /= "IllegalResponse"
    /\ C22_Stored

\* C23: with games = None, the GetDataPackage request names every game the
\* room advertises in its RoomInfo, that is RoomInfo.games.
C23_DefaultsToEveryGame ==
    (pc = "with_data_package_recv" /\ ~call.games.is_some)
        => out = <<Encode(GetDataPackage(SomeGames(room_info.games)))>>

\* C24: a decoding failure of an inbound frame is reported as an error kind
\* other than the one an encoding failure of an outgoing message is reported
\* as: a recv that reads a text frame which does not decode fails with a
\* kind that is not the kind send fails with when its message does not
\* encode.
C24_EncodeDecodeDistinguished ==
    [][ (Recv /\ message_buffer = <<>> /\ NextFrame.kind = "badtext")
            => (ret'.tag = "Err" /\ ret'.err /= send_EncodeError) ]_vars

\* The frames of the model that are not text payloads.
C25_NonText == {"ping", "pong", "binary"}

\* C25: a recv that reads a frame which is not a text payload fails with the
\* non-text-frame error: it returns no message, no empty result and no
\* closed connection.
C25_NonTextFrameFails ==
    [][ (Recv /\ message_buffer = <<>> /\ wire /= <<>>
              /\ NextFrame.kind \in C25_NonText)
            => ret' = Err("recv", "NonTextWebsocketResult") ]_vars

\* What C26 says of one Bounce with a DeathLink payload, its wire form and
\* what the wire form decodes to.
C26_RoundTrip(b, w, d) ==
    /\ w.tags.present
    /\ Count("DeathLink", w.tags.v) = 1
    /\ d.tag = "Ok"
    /\ d.data.variant = "DeathLink"
    /\ TimestampSeconds_ToSeconds(d.data.death_link.time)
            = TimestampSeconds_ToSeconds(b.data.death_link.time)
    /\ d.data.death_link.cause = b.data.death_link.cause
    /\ d.data.death_link.source = b.data.death_link.source

\* C26: the wire form of a Bounce with a DeathLink payload has the tag
\* "DeathLink" once, whatever tags the caller gave, and decodes as a Bounced
\* with a DeathLink payload of the same whole seconds, cause and source.
C26_DeathLinkRoundTrip ==
    (pc = "decoded" /\ call.fn = "bounce" /\ call.input.data.variant = "DeathLink")
        => C26_RoundTrip(call.input, call.wire, call.decoded)

\* C27: a Bounced is decoded with a DeathLink payload if and only if its
\* tags hold "DeathLink", and with the payload as it is, generic, otherwise,
\* also when no tags are written and whatever keys the payload has: with the
\* tag, a payload that is no DeathLink fails the decoding and is not taken
\* as generic; without it, a payload with the keys of a DeathLink stays
\* generic.
C27_ShapeByTagOnly ==
    pc = "decoded" =>
        LET w == call.wire
            d == call.decoded
            internal == InternalBounced_deserialize(w)
            tagged == w.tags.present /\ HasDeathLink(w.tags.v)
        IN  /\ d.tag = "Ok" => (d.data.variant = "DeathLink" <=> tagged)
            /\ (d.tag = "Ok" /\ ~tagged) => d.data = GenericData(w.data)
            /\ (internal.tag = "Ok" /\ ~tagged) => d.tag = "Ok"
            /\ (tagged /\ DeathLink_from_value(w.data).tag = "Err") => d.tag = "Err"

\* C27 witness: a Bounced without tags whose payload has the keys of a
\* DeathLink was decoded, as generic.
C27_Witness ==
    /\ pc = "decoded"
    /\ ~call.wire.tags.present
    /\ DeathLink_from_value(call.wire.data).tag = "Ok"
    /\ call.decoded.tag = "Ok"
    /\ call.decoded.data.variant = "Generic"

\* The parts that refer to an id.
IdTypes == {"PlayerId", "ItemId", "LocationId"}

\* C28: add_names changes nothing of a print but the name of its PlayerId,
\* ItemId and LocationId parts, and applied again with the same roster and
\* data package it leaves every part as the application before left it.
C28_AddNamesIdempotent ==
    call.applied > 0 =>
        /\ Len(call.print) = Len(call.before)
        /\ \A k \in 1..Len(call.print) :
              /\ [call.print[k] EXCEPT !.name = call.before[k].name] = call.before[k]
              /\ call.before[k].type \notin IdTypes => call.print[k] = call.before[k]
        /\ call.same => call.print = call.before

\* C28 witness: add_names was applied again with the same roster and data
\* package to a print of which it had resolved a part.
C28_Witness ==
    /\ call.applied > 1
    /\ call.same
    /\ \E k \in 1..Len(call.print) : call.print[k].name.is_some

\* The reference of a part cannot be resolved: the player is not in the
\* roster, or the owning slot is unknown, or there is no data package for
\* the slot's game, or no name of the game maps to the id.
C29_Unresolvable(part, connected, package) ==
    CASE part.type = "PlayerId" ->
            \A k \in 1..Len(connected.players) : connected.players[k].slot /= part.id
      [] part.type \in {"ItemId", "LocationId"} ->
            \/ part.player \notin DOMAIN connected.slot_info
            \/ connected.slot_info[part.player] \notin DOMAIN package.games
            \/ LET g == package.games[connected.slot_info[part.player]]
                   forward == IF part.type = "ItemId" THEN g.item_name_to_id
                                                      ELSE g.location_name_to_id
               IN  \A n \in DOMAIN forward : forward[n] /= part.id
      [] OTHER -> FALSE

\* The placeholder of a part: the raw id and the owning slot.
C29_Placeholder(part) ==
    CASE part.type = "PlayerId" -> [text |-> "<player {}>", player |-> 0, id |-> part.id]
      [] part.type = "ItemId" -> [text |-> "<item {}:{}>", player |-> part.player, id |-> part.id]
      [] part.type = "LocationId" -> [text |-> "<loc {}:{}>", player |-> part.player, id |-> part.id]

\* C29: a part whose reference cannot be resolved with the roster and the
\* data package given is left by add_name as it was; one that had no name
\* has none afterwards, and is displayed as the placeholder of its raw id
\* and owning slot.
C29_UnresolvedIsPlaceholder ==
    call.applied > 0 =>
        \A k \in 1..Len(call.before) :
            (call.before[k].type \in IdTypes
                /\ C29_Unresolvable(call.before[k], call.connected, call.data_package))
            => /\ call.print[k] = call.before[k]
               /\ ~call.before[k].name.is_some
                    => /\ ~call.print[k].name.is_some
                       /\ call.shown /= <<>> => call.shown[k] = C29_Placeholder(call.before[k])

\* C29 witness: a print with an item whose owning slot has a game without
\* data package went through add_names, with a data package of another game,
\* and was displayed.
C29_Witness ==
    /\ call.applied > 0
    /\ call.shown /= <<>>
    /\ DOMAIN call.data_package.games /= {}
    /\ call.before[1] = ItemIdPart(42, 2, NoneStr)
    /\ call.shown[1].text = "<item {}:{}>"

\* C30: add_name fills an ItemId or LocationId part with the name that the
\* data package gives the id in the game of the part's owning slot, the game
\* being the one the roster has for that slot: the name filled in maps to
\* the id in the forward map of that game. ItemId{id: 42, player: 1}, left
\* unresolved when there is no data package, resolves to "Sword" with the
\* data package in which the game of player 1 maps "Sword" to 42.
C30_ResolvesThroughOwningGame ==
    call.applied > 0 =>
        \A k \in 1..Len(call.before) :
            (call.before[k].type \in {"ItemId", "LocationId"}
                /\ ~C29_Unresolvable(call.before[k], call.connected, call.data_package))
            => LET part == call.before[k]
                   g == call.data_package.games[call.connected.slot_info[part.player]]
                   forward == IF part.type = "ItemId" THEN g.item_name_to_id
                                                      ELSE g.location_name_to_id
               IN  /\ call.print[k].name.is_some
                   /\ call.print[k].name.v \in DOMAIN forward
                   /\ forward[call.print[k].name.v] = part.id
                   /\ (part = ItemIdPart(42, 1, NoneStr)
                            /\ "Sword" \in DOMAIN g.item_name_to_id)
                        => call.print[k] = ItemIdPart(42, 1, SomeStr("Sword"))

\* C30 witness: ItemId{id: 42, player: 1} was left unresolved by add_names
\* without a data package and then resolved to "Sword".
C30_Witness ==
    /\ call.applied = 2
    /\ call.before[1] = ItemIdPart(42, 1, NoneStr)
    /\ call.print[1] = ItemIdPart(42, 1, SomeStr("Sword"))
    /\ call.shown /= <<>>
    /\ call.shown[1] = Written_Text("Sword")

\* The players of the roster in the slot, on the caller's team.
C31_Teammates(connected, i) ==
    {k \in 1..Len(connected.players) :
        connected.players[k].slot = i /\ connected.players[k].team = connected.team}

\* C31: add_name gives a PlayerId part the alias of the roster player its id
\* refers to: the player whose slot is the id, on the caller's team when
\* the roster lists several teams.
C31_PlayerAliasOfOwnTeam ==
    call.applied > 0 =>
        \A k \in 1..Len(call.before) :
            (call.before[k].type = "PlayerId"
                /\ C31_Teammates(call.connected, call.before[k].id) /= {})
            => \E m \in C31_Teammates(call.connected, call.before[k].id) :
                    call.print[k].name = SomeStr(call.connected.players[m].alias)

\* The forward map an index of the call at hand inverts.
C32_Forward ==
    IF call.kind = "item" THEN call.input.item_name_to_id
                          ELSE call.input.location_name_to_id

\* C32: the table item_id_to_name() or location_id_to_name() returns is the
\* exact inverse of the forward map: it has an entry for every id of the
\* forward map and for nothing else, and maps the id of every name to that
\* name; a call after the first returns a table equal to the one kept, and
\* the forward maps are as they were received.
C32_InverseIndex ==
    call.calls > 0 =>
        /\ DOMAIN call.result = {C32_Forward[n] : n \in DOMAIN C32_Forward}
        /\ \A n \in DOMAIN C32_Forward : call.result[C32_Forward[n]] = n
        /\ call.kept.is_some => call.result = call.kept.v
        /\ call.index[call.kind] = [is_some |-> TRUE, v |-> call.result]
        /\ call.game = call.input

\* C32 witness: the index of items of a GameData with three items was asked
\* for a second time.
C32_Witness ==
    /\ call.calls > 1
    /\ call.kind = "item"
    /\ call.kept.is_some
    /\ Cardinality(DOMAIN call.input.item_name_to_id) = 3

\* C33: a value of ItemsHandlingFlags built from the named flags reports
\* the bit of "other worlds" whenever "own world" or "starting inventory" was
\* selected, and a value built from "other worlds" alone reports neither
\* "own world" nor "starting inventory".
C33_ItemsHandlingComposition ==
    call.named =>
        /\ (call.selected \cap {"OWN_WORLD", "STARTING_INVENTORY"} /= {})
                => /\ contains(call.bits, ItemsHandlingFlags["OTHER_WORLDS"])
                   /\ call.bits % 2 = 1
        /\ call.selected = {"OTHER_WORLDS"}
                => /\ ~contains(call.bits, ItemsHandlingFlags["OWN_WORLD"])
                   /\ ~contains(call.bits, ItemsHandlingFlags["STARTING_INVENTORY"])
                   /\ call.bits = 1

\* C33 witness: a value was built from "own world" alone.
C33_Witness ==
    /\ call.named
    /\ call.fn = "insert"
    /\ call.selected = {"OWN_WORLD"}
    /\ call.bits = 3

\* C34: every frame send writes is an array, of the one message sent; a recv
\* that reads a text frame, be it one message outside an array or an array,
\* decodes all its messages in order: it returns the first, and keeps the
\* others, none for a message outside an array.
C34_ArrayOutBothIn ==
    [][ /\ \A k \in 1..Len(out') : Len(out'[k]) = 1 /\ out'[k][1] \in SendCmds
        /\ (Recv /\ message_buffer = <<>> /\ wire /= <<>>
                  /\ NextFrame.kind \in {"bare", "text"})
            => /\ ret' = Ok("recv", NextFrame.msgs[1])
               /\ delivered' = delivered + Len(NextFrame.msgs)
               /\ message_buffer' = Reverse(Tail(NextFrame.msgs))
               /\ NextFrame.kind = "bare" => message_buffer' = <<>>
      ]_vars

\* C34 witness: send has written its frame and the next thing for recv to
\* read is a message outside an array.
C34_Witness ==
    /\ pc = "idle"
    /\ out /= <<>>
    /\ message_buffer = <<>>
    /\ wire /= <<>>
    /\ Head(wire).kind = "bare"

\* C35: receiving loses and duplicates no message. A frame is taken off the
\* stream only when the buffer of the reader is empty; and whenever the
\* session is between two calls, every message decoded since the RoomInfo
\* is either in the buffer, once, or was handed to a caller, once.
C35_NoLossNoDuplicate ==
    [][ /\ Len(wire') < Len(wire)
            => /\ message_buffer = <<>>
               /\ pc = "split" => receiver.message_buffer = <<>>
        /\ pc' = "idle"
            => \A i \in 2..delivered' :
                    Count(i, Ids(message_buffer')) + Count(i, returned') = 1
      ]_vars

\* C35 witness: a selective-wait operation has returned its reply, the first
\* message of a frame whose second message is in the buffer.
C35_Witness ==
    /\ pc = "idle"
    /\ ret.op \in SelOps
    /\ ret.tag = "Ok"
    /\ message_buffer /= <<>>
    /\ delivered = 3
    /\ Len(returned) = 1

\* C36: a selective-wait operation takes its reply by type alone. Called
\* while the message recv hands out next is in the buffer and of the type
\* the operation expects, it has written its request, takes that message
\* without reading the stream, and returns it as its reply.
C36_EarlierMessageTakenAsReply ==
    [][ /\ (pc \in SelOps /\ response = NoMsg /\ message_buffer /= <<>>
                /\ Last(message_buffer).cmd = Expected(pc) /\ response' /= response)
            => /\ out = <<Encode(Request(pc))>>
               /\ response' = Last(message_buffer)
               /\ wire' = wire
               /\ delivered' = delivered
        /\ (pc \in SelOps /\ response /= NoMsg /\ response.cmd = Expected(pc)
                /\ response' /= response)
            => /\ ret' = Ok(pc, response)
               /\ pc' = "idle"
               /\ wire' = wire
      ]_vars

\* C36 witness: a selective-wait operation has written its request while
\* the message recv hands out next is of the type it expects, and a frame
\* is there to be read.
C36_Witness ==
    /\ pc \in SelOps
    /\ response = NoMsg
    /\ out = <<Encode(Request(pc))>>
    /\ message_buffer /= <<>>
    /\ Last(message_buffer).cmd = Expected(pc)
    /\ wire /= <<>>

\* C37: a recv that reads a text frame which does not decode returns the
\* decode error; no message is decoded, handed out or buffered, the buffer
\* is empty afterwards and the frame is gone from the stream, so that the
\* recv after it reads the frame that follows and returns its first message.
C37_UndecodableFrameDropped ==
    [][ /\ (Recv /\ message_buffer = <<>> /\ NextFrame.kind = "badtext")
            => /\ ret' = Err("recv", "FailedSerialize")
               /\ delivered' = delivered
               /\ returned' = returned
               /\ message_buffer' = <<>>
               /\ wire' = Tail(wire)
        /\ (Recv /\ ret = Err("recv", "FailedSerialize") /\ wire /= <<>>)
            => /\ message_buffer = <<>>
               /\ wire' = Tail(wire)
               /\ Head(wire).kind = "text"
                    => /\ ret' = Ok("recv", Head(wire).msgs[1])
                       /\ delivered' = delivered + Len(Head(wire).msgs)
      ]_vars

\* C37 witness: recv has failed on a frame that does not decode, and the
\* frame that follows it, a text frame, is the next to be read.
C37_Witness ==
    /\ pc = "idle"
    /\ ret = Err("recv", "FailedSerialize")
    /\ message_buffer = <<>>
    /\ wire /= <<>>
    /\ Head(wire).kind = "text"

\* A payload that is no DeathLink: there is no data, or its time is missing
\* or no number, or its source is missing or no string.
C38_NoDeathLinkPayload(v) ==
    \/ v.j = "absent"
    \/ v.time.j /= "number"
    \/ v.source.j /= "string"

\* C38: decoding a Bounced whose tags hold "DeathLink" and whose payload is
\* no DeathLink, for want of a time, of a source or of the data itself,
\* fails: no Bounced comes out of it, with a generic payload or any other.
C38_TaggedInvalidPayloadFails ==
    (/\ pc = "decoded"
     /\ HasDeathLink(call.wire.tags.v)
     /\ C38_NoDeathLinkPayload(call.wire.data))
        => call.decoded.tag = "Err"

\* C38 witness: a Bounced with the tag "DeathLink" and a source but no time
\* was decoded; its slots are numbers, so that nothing else fails it.
C38_Witness ==
    /\ pc = "decoded"
    /\ call.fn = "bounced"
    /\ HasDeathLink(call.wire.tags.v)
    /\ call.wire.data.j = "object"
    /\ call.wire.data.time.j /= "number"
    /\ call.wire.data.source.j = "string"
    /\ call.decoded.tag = "Err"

\* C39: add_name never clears a name. A PlayerId, ItemId or LocationId part
\* that has a name still has one after add_names, whatever roster and data
\* package it is given; the part still refers to the same id of the same
\* slot, and its name is another one only when this roster and this data
\* package resolve the reference.
C39_NameNeverCleared ==
    (pc = "print" /\ call.applied > 0) =>
        \A k \in 1..Len(call.before) :
            LET old == call.before[k]
                new == call.print[k]
            IN  (old.type \in IdTypes /\ old.name.is_some)
                    => /\ new.name.is_some
                       /\ new.type = old.type
                       /\ new.id = old.id
                       /\ new.player = old.player
                       /\ new.name /= old.name
                            => ~C29_Unresolvable(old, call.connected, call.data_package)

\* C39 witness: a part that had its name from an earlier add_names went
\* through add_names with a roster and a data package that do not resolve
\* it, and has the name it had.
C39_Witness ==
    /\ pc = "print"
    /\ call.applied >= 2
    /\ call.before[1].type \in IdTypes
    /\ call.before[1].name.is_some
    /\ C29_Unresolvable(call.before[1], call.connected, call.data_package)
    /\ call.print[1].name = call.before[1].name

====
